---- MODULE Spec2Model ----
(***************************************************************************)
(* Query safety validation, row-limit injection, the usage digest, tool    *)
(* registration and the database connections of the SQL MCP server.       *)
(* Query strings are sequences of one-character strings, so that the       *)
(* regular expressions and the str methods of the source are evaluated     *)
(* character by character.                                                 *)
(***************************************************************************)
EXTENDS Integers, Sequences, FiniteSets, TLC

VARIABLES
    query,          \* the query argument of the call
    limit,          \* the limit argument of the call
    pc,             \* "start", "loaded", or the operation that ran
    verdict,        \* the value the validator returned
    outcome,        \* "raised", "rejected" (an error result) or "executed"
    db_query,       \* the query handed to the database, or NoQuery
    old_digest,     \* current_digest of update_usage_digest
    new_digest,     \* new_digest of update_usage_digest
    merged_digest,  \* merged_digest of update_usage_digest
    digest_file,    \* what the digest document on disk holds
    disk_ok,        \* the digest document can be read and written
    clock,          \* datetime.now(), in seconds
    database,       \* the database: reachable or not, its tables and foreign keys
    task,           \* where each running update_usage_digest call awaits
    local,          \* the local variables of each update_usage_digest call
    result,         \* what each update_usage_digest call last returned
    reply,          \* what the last call of another tool returned or raised
    db_schemas,     \* the schemas that the last tool call queried the database for
    step,           \* the last step taken and the call that took it
    runs,           \* the batches merged so far, in the order of the merges
    calls,          \* the number of update_usage_digest calls made
    ticks,          \* the number of times the clock was advanced
    success,        \* register_all_tools: its local variable success
    registered,     \* the tool groups registered with the MCP instance
    failed,         \* the tool groups whose import or registration raised
    next_group,     \* the tool group that register_all_tools comes to next
    returned,       \* what register_all_tools returned, or None
    _conn,          \* sql_mcp_server._conn: the cached connection, or None
    alive,          \* the connections that the server still answers on
    closed,         \* the connections that were closed
    formats_ok,     \* the connection-string formats that pyodbc.connect accepts now
    attempts,       \* the pyodbc.connect calls of the last _get_db_connection_blocking
    conn_returned,  \* what the last _get_db_connection_blocking returned or raised
    opened,         \* the number of connections pyodbc.connect has opened
    pool,           \* DBConnectionPool.pool: the idle connections, in order
    in_use,         \* DBConnectionPool.in_use: the connections handed out
    initialized,    \* DBConnectionPool.initialized
    lock,           \* DBConnectionPool.lock: the coroutine that holds it, or 0
    connection_attempts, \* DBConnectionPool.connection_attempts
    coro,           \* where each coroutine that uses the pool is
    conn,           \* the connection each coroutine was given, or 0
    error,          \* what the last call of each coroutine raised, or None
    pool_calls      \* the number of calls made on the pool

query_vars == <<query, limit, pc, verdict, outcome, db_query,
                old_digest, new_digest, merged_digest>>

digest_vars == <<digest_file, disk_ok, clock, database, task, local, result,
                 reply, db_schemas, step, runs, calls, ticks>>

loader_vars == <<success, registered, failed, next_group, returned>>

conn_vars == <<_conn, alive, closed, formats_ok, attempts, conn_returned, opened>>

pool_vars == <<pool, in_use, initialized, lock, connection_attempts, coro, conn,
               error, pool_calls>>

server_vars == <<loader_vars, conn_vars, pool_vars>>

vars == <<query_vars, digest_vars, server_vars>>

(***************************************************************************)
(* Characters: the classes \s and \w of Python's re, and str.upper().      *)
(***************************************************************************)
LowerLetters == <<"a", "b", "c", "d", "e", "f", "g", "h", "i", "j", "k", "l", "m", "n", "o", "p", "q", "r", "s", "t", "u", "v", "w", "x", "y", "z">>

UpperLetters == <<"A", "B", "C", "D", "E", "F", "G", "H", "I", "J", "K", "L", "M", "N", "O", "P", "Q", "R", "S", "T", "U", "V", "W", "X", "Y", "Z">>

DigitChars == <<"0", "1", "2", "3", "4", "5", "6", "7", "8", "9">>

Range(s) == {s[i] : i \in 1..Len(s)}

\* \s : the ASCII whitespace characters
IsSpace(c) == c \in {" ", "\t", "\n", "\r"}

WordChars == Range(LowerLetters) \cup Range(UpperLetters) \cup Range(DigitChars) \cup {"_"}

\* \w : letters, digits and the underscore
IsWord(c) == c \in WordChars

UpperOf == [c \in Range(LowerLetters) |->
               UpperLetters[CHOOSE i \in 1..Len(LowerLetters) : LowerLetters[i] = c]]

LowerOf == [c \in Range(UpperLetters) |->
               LowerLetters[CHOOSE i \in 1..Len(UpperLetters) : UpperLetters[i] = c]]

\* str.upper() on one character
upper_char(c) == IF c \in DOMAIN UpperOf THEN UpperOf[c] ELSE c

\* str.lower() on one character
lower_char(c) == IF c \in DOMAIN LowerOf THEN LowerOf[c] ELSE c

\* str.upper()
str_upper(s) == [i \in 1..Len(s) |-> upper_char(s[i])]

\* str.lower()
str_lower(s) == [i \in 1..Len(s) |-> lower_char(s[i])]

\* str.strip() : drops the leading and the trailing whitespace
str_strip(s) ==
    LET inner == {i \in 1..Len(s) : ~IsSpace(s[i])}
    IN  IF inner = {} THEN <<>>
        ELSE SubSeq(s, CHOOSE i \in inner : \A j \in inner : i <= j,
                       CHOOSE i \in inner : \A j \in inner : j <= i)

\* str.startswith(prefix)
str_startswith(s, prefix) ==
    /\ Len(prefix) <= Len(s)
    /\ SubSeq(s, 1, Len(prefix)) = prefix

\* the Python test "sub in s"
str_contains(s, sub) ==
    \E i \in 1..(Len(s) + 1) : /\ i + Len(sub) - 1 <= Len(s)
                               /\ SubSeq(s, i, i + Len(sub) - 1) = sub

\* s[n:] : the string without its first n characters
str_from(s, n) == SubSeq(s, n + 1, Len(s))

\* str(n) of a non-negative integer
RECURSIVE int_to_str(_)
int_to_str(n) ==
    IF n < 10 THEN <<DigitChars[n + 1]>>
    ELSE int_to_str(n \div 10) \o <<DigitChars[(n % 10) + 1]>>

(***************************************************************************)
(* Regular-expression primitives (re.IGNORECASE literals, \b, $).          *)
(***************************************************************************)
\* is position i of s a \w character (positions outside s are not)
IsWordAt(s, i) == i >= 1 /\ i <= Len(s) /\ IsWord(s[i])

\* \b just before position i
WordBoundary(s, i) == IsWordAt(s, i - 1) # IsWordAt(s, i)

\* the literal text matches at position i, ignoring case
MatchCI(s, i, text) ==
    /\ i >= 1
    /\ i + Len(text) - 1 <= Len(s)
    /\ \A k \in 1..Len(text) : upper_char(s[i + k - 1]) = upper_char(text[k])

\* $ without re.MULTILINE, just before position i: the end of the string,
\* or just before a newline that ends the string
AtDollar(s, i) == i = Len(s) + 1 \/ (i = Len(s) /\ s[i] = "\n")

AllSpace(s, from, to) == \A k \in from..to : IsSpace(s[k])

AllWord(s, from, to) == \A k \in from..to : IsWord(s[k])

(***************************************************************************)
(* src/sqlmcp/utils/security.py                                            *)
(***************************************************************************)
kwSELECT == <<"S", "E", "L", "E", "C", "T">>

\* the list without TRUNCATE, as in the forbidden list of sql_mcp_server.py
PROHIBITED_KEYWORDS_no_truncate == <<
    [kind |-> "word",   a |-> <<"I", "N", "S", "E", "R", "T">>,   b |-> <<>>],
    [kind |-> "word",   a |-> <<"U", "P", "D", "A", "T", "E">>,   b |-> <<>>],
    [kind |-> "word",   a |-> <<"D", "E", "L", "E", "T", "E">>,   b |-> <<>>],
    [kind |-> "word",   a |-> <<"D", "R", "O", "P">>,     b |-> <<>>],
    [kind |-> "word",   a |-> <<"A", "L", "T", "E", "R">>,    b |-> <<>>],
    [kind |-> "word",   a |-> <<"C", "R", "E", "A", "T", "E">>,   b |-> <<>>],
    [kind |-> "word",   a |-> <<"E", "X", "E", "C">>,     b |-> <<>>],
    [kind |-> "word",   a |-> <<"E", "X", "E", "C", "U", "T", "E">>,  b |-> <<>>],
    [kind |-> "proc",   a |-> <<"s", "p", "_">>,      b |-> <<>>],
    [kind |-> "proc",   a |-> <<"x", "p", "_">>,      b |-> <<>>],
    [kind |-> "phrase", a |-> <<"I", "N", "T", "O">>,     b |-> <<"O", "U", "T", "F", "I", "L", "E">>],
    [kind |-> "phrase", a |-> <<"I", "N", "T", "O">>,     b |-> <<"D", "U", "M", "P", "F", "I", "L", "E">>] >>

\* the thirteen patterns; kind "word" is \bA\b, "proc" is \bA\w+\b and
\* "phrase" is \bA\s+B\b
PROHIBITED_KEYWORDS == <<
    [kind |-> "word",   a |-> <<"I", "N", "S", "E", "R", "T">>,   b |-> <<>>],
    [kind |-> "word",   a |-> <<"U", "P", "D", "A", "T", "E">>,   b |-> <<>>],
    [kind |-> "word",   a |-> <<"D", "E", "L", "E", "T", "E">>,   b |-> <<>>],
    [kind |-> "word",   a |-> <<"D", "R", "O", "P">>,     b |-> <<>>],
    [kind |-> "word",   a |-> <<"A", "L", "T", "E", "R">>,    b |-> <<>>],
    [kind |-> "word",   a |-> <<"C", "R", "E", "A", "T", "E">>,   b |-> <<>>],
    [kind |-> "word",   a |-> <<"T", "R", "U", "N", "C", "A", "T", "E">>, b |-> <<>>],
    [kind |-> "word",   a |-> <<"E", "X", "E", "C">>,     b |-> <<>>],
    [kind |-> "word",   a |-> <<"E", "X", "E", "C", "U", "T", "E">>,  b |-> <<>>],
    [kind |-> "proc",   a |-> <<"s", "p", "_">>,      b |-> <<>>],
    [kind |-> "proc",   a |-> <<"x", "p", "_">>,      b |-> <<>>],
    [kind |-> "phrase", a |-> <<"I", "N", "T", "O">>,     b |-> <<"O", "U", "T", "F", "I", "L", "E">>],
    [kind |-> "phrase", a |-> <<"I", "N", "T", "O">>,     b |-> <<"D", "U", "M", "P", "F", "I", "L", "E">>] >>

\* one compiled pattern matched at position i of s
pattern_match_at(p, s, i) ==
    LET e == i + Len(p.a)   \* the position after the first literal
    IN  /\ WordBoundary(s, i)
        /\ MatchCI(s, i, p.a)
        /\ CASE p.kind = "word" -> WordBoundary(s, e)
             [] p.kind = "proc" ->
                    \E z \in e..Len(s) : AllWord(s, e, z) /\ WordBoundary(s, z + 1)
             [] p.kind = "phrase" ->
                    \E j \in (e + 1)..Len(s) :
                        /\ AllSpace(s, e, j - 1)
                        /\ MatchCI(s, j, p.b)
                        /\ WordBoundary(s, j + Len(p.b))

\* pattern.search(query)
pattern_search(p, s) == \E i \in 1..Len(s) : pattern_match_at(p, s, i)

\* the match without the closing \b: SELECT as a mere prefix
re_match_select_no_boundary(s) ==
    \E n \in 0..Len(s) : AllSpace(s, 1, n) /\ MatchCI(s, n + 1, kwSELECT)

\* re.match(r'^\s*SELECT\b', query, re.IGNORECASE)
re_match_select(s) ==
    \E n \in 0..Len(s) :
        /\ AllSpace(s, 1, n)
        /\ MatchCI(s, n + 1, kwSELECT)
        /\ WordBoundary(s, n + 1 + Len(kwSELECT))

\* the search for a semicolon alone, whatever follows it
re_search_any_semicolon(s) == \E i \in 1..Len(s) : s[i] = ";"

\* re.search(r';\s*\w', query)
re_search_multiple_statements(s) ==
    \E i \in 1..Len(s) :
        /\ s[i] = ";"
        /\ \E j \in (i + 1)..Len(s) : AllSpace(s, i + 1, j - 1) /\ IsWord(s[j])

\* re.search(r'--\s*$|\/\*|\*\/', query)
re_search_comment(s) ==
    \/ \E i \in 1..(Len(s) - 1) :
          /\ s[i] = "-" /\ s[i + 1] = "-"
          /\ \E e \in (i + 2)..(Len(s) + 1) : AllSpace(s, i + 2, e - 1) /\ AtDollar(s, e)
    \/ str_contains(s, <<"/", "*">>)
    \/ str_contains(s, <<"*", "/">>)

is_safe_query(q) ==
    IF ~re_match_select(q) THEN FALSE
    ELSE IF \E n \in 1..Len(PROHIBITED_KEYWORDS) : pattern_search(PROHIBITED_KEYWORDS[n], q)
         THEN FALSE
    ELSE IF re_search_multiple_statements(q) THEN FALSE
    ELSE IF re_search_comment(q) THEN FALSE
    ELSE TRUE

(***************************************************************************)
(* sql_mcp_server.py : the validator of the FastMCP server                 *)
(***************************************************************************)
server_forbidden == <<<<"I", "N", "S", "E", "R", "T">>, <<"U", "P", "D", "A", "T", "E">>, <<"D", "E", "L", "E", "T", "E">>, <<"D", "R", "O", "P">>, <<"C", "R", "E", "A", "T", "E">>,
                      <<"A", "L", "T", "E", "R">>, <<"E", "X", "E", "C">>, <<"E", "X", "E", "C", "U", "T", "E">>, <<"S", "P", "_">>, <<"X", "P", "_">>>>

server_is_safe_query(q) ==
    LET u == str_upper(str_strip(q))
    IN  IF ~str_startswith(u, kwSELECT) THEN FALSE
        ELSE IF \E n \in 1..Len(server_forbidden) : str_contains(u, server_forbidden[n])
             THEN FALSE
        ELSE TRUE

(***************************************************************************)
(* Row limits.  Each tool rewrites the validated query in line; the        *)
(* rewrite of each tool is one operator.                                   *)
(***************************************************************************)
kwSELECT_TOP == <<"S", "E", "L", "E", "C", "T", " ", "T", "O", "P", " ">>

\* sql_mcp_server.py: the stripped query already starts with SELECT TOP
server_has_top(processed_query) == str_startswith(str_upper(processed_query), kwSELECT_TOP)

\* sql_mcp_server.py execute_select, "Apply TOP clause"
server_apply_top(q, n) ==
    LET processed_query == str_strip(q)
    IN  IF n > 0 /\ ~server_has_top(processed_query)
        THEN IF str_startswith(str_upper(processed_query), kwSELECT)
             THEN kwSELECT_TOP \o int_to_str(n) \o <<" ">>
                  \o str_strip(str_from(processed_query, Len(kwSELECT)))
             ELSE processed_query
        ELSE processed_query

\* m.end() of re.match(r'^\s*SELECT\s+', query, re.IGNORECASE), 0 for no match;
\* \s+ is greedy and takes all the whitespace after SELECT
re_match_select_space_end(s) ==
    LET ends == {e \in 1..Len(s) :
                   \E n \in 0..Len(s) :
                       /\ AllSpace(s, 1, n)
                       /\ MatchCI(s, n + 1, kwSELECT)
                       /\ e >= n + Len(kwSELECT) + 1
                       /\ AllSpace(s, n + Len(kwSELECT) + 1, e)
                       /\ ~(e + 1 <= Len(s) /\ IsSpace(s[e + 1]))}
    IN  IF ends = {} THEN 0 ELSE CHOOSE e \in ends : TRUE

\* tools/query.py: "top" in query.lower()
query_has_top(q) == str_contains(str_lower(q), <<"t", "o", "p">>)

\* tools/query.py execute_select, "Apply row limit if not already present"
query_apply_top(q, n) ==
    IF n > 0 /\ ~query_has_top(q)
    THEN LET end == re_match_select_space_end(q)
         IN  IF end > 0
             THEN SubSeq(q, 1, end) \o <<"T", "O", "P", " ">> \o int_to_str(n) \o <<" ">> \o str_from(q, end)
             ELSE q
    ELSE q

\* export_tools.py: "Check if query already has a TOP or LIMIT clause"
export_has_limit(upper_query) ==
    \/ str_contains(upper_query, <<"T", "O", "P", " ">>)
    \/ str_contains(upper_query, <<"L", "I", "M", "I", "T", " ">>)
    \/ str_contains(upper_query, <<"F", "E", "T", "C", "H", " ", "F", "I", "R", "S", "T">>)

\* tools/basic_advanced/export_tools.py export_data, "Apply limit"
export_apply_limit(q, n) ==
    LET upper_query == str_upper(q)
    IN  IF n > 0
        THEN IF ~export_has_limit(upper_query)
             THEN IF str_startswith(upper_query, kwSELECT)
                  THEN kwSELECT_TOP \o int_to_str(n) \o <<" ">>
                       \o str_strip(str_from(q, Len(kwSELECT)))
                  ELSE q
             ELSE q
        ELSE q

NoQuery == <<"<none>">>

valid_formats == {"csv", "json", "markdown", "html"}

(***************************************************************************)
(* Operations.  pc names the operation that ran on (query, limit).         *)
(***************************************************************************)
\* utils/security.py is_safe_query called on the query
IsSafeQuery ==
    /\ pc = "start"
    /\ verdict' = is_safe_query(query)
    /\ pc' = "is_safe_query"
    /\ UNCHANGED <<query, limit, outcome, db_query, old_digest, new_digest, merged_digest>>
    /\ UNCHANGED <<digest_vars, server_vars>>

\* sql_mcp_server.py is_safe_query called on the query
ServerIsSafeQuery ==
    /\ pc = "start"
    /\ verdict' = server_is_safe_query(query)
    /\ pc' = "server_is_safe_query"
    /\ UNCHANGED <<query, limit, outcome, db_query, old_digest, new_digest, merged_digest>>
    /\ UNCHANGED <<digest_vars, server_vars>>

\* sql_mcp_server.py execute_select: ValueError for a missing query, a negative
\* limit or a query the server's validator rejects; otherwise the rewritten
\* query goes to _execute_query_blocking
ExecuteSelect ==
    /\ pc = "start"
    /\ pc' = "execute_select"
    /\ verdict' = server_is_safe_query(query)
    /\ IF query = <<>> \/ limit < 0 \/ ~server_is_safe_query(query)
       THEN outcome' = "raised" /\ db_query' = NoQuery
       ELSE outcome' = "executed" /\ db_query' = server_apply_top(query, limit)
    /\ UNCHANGED <<query, limit, old_digest, new_digest, merged_digest>>
    /\ UNCHANGED <<digest_vars, server_vars>>

\* tools/query.py execute_select: an error dictionary for a query that
\* security.is_safe_query rejects; otherwise the rewritten query goes to
\* db.execute_query
QueryExecuteSelect ==
    /\ pc = "start"
    /\ pc' = "query_execute_select"
    /\ verdict' = is_safe_query(query)
    /\ IF ~is_safe_query(query)
       THEN outcome' = "rejected" /\ db_query' = NoQuery
       ELSE outcome' = "executed" /\ db_query' = query_apply_top(query, limit)
    /\ UNCHANGED <<query, limit, old_digest, new_digest, merged_digest>>
    /\ UNCHANGED <<digest_vars, server_vars>>

\* tools/basic_advanced/export_tools.py export_data, with the validator that
\* sql_mcp_server.py registers (its own is_safe_query)
ExportData ==
    /\ pc = "start"
    /\ pc' = "export_data"
    /\ verdict' = server_is_safe_query(query)
    /\ \E format \in {"csv", "xml"} :
          IF \/ format \notin valid_formats
             \/ ~str_startswith(str_upper(str_strip(query)), kwSELECT)
             \/ ~server_is_safe_query(query)
          THEN outcome' = "rejected" /\ db_query' = NoQuery
          ELSE outcome' = "executed" /\ db_query' = export_apply_limit(query, limit)
    /\ UNCHANGED <<query, limit, old_digest, new_digest, merged_digest>>
    /\ UNCHANGED <<digest_vars, server_vars>>

(***************************************************************************)
(* src/sqlmcp/tools/usage_digest.py : merging of usage digests.  A         *)
(* timestamp is its position in time order (ISO strings are compared       *)
(* through datetime.fromisoformat); a digest maps each key to its record.  *)
(***************************************************************************)
\* the new record with the earlier first_seen, the old count not added
merge_record_new_count_only(info, new_info) ==
    [new_info EXCEPT !.first_seen = IF info.first_seen < @ THEN info.first_seen ELSE @]

\* the record of a key present in both digests: the new record with the old
\* count added and the earlier first_seen; last_seen stays the new one
merge_record(info, new_info) ==
    [new_info EXCEPT !.query_count = @ + info.query_count,
                     !.first_seen = IF info.first_seen < @ THEN info.first_seen ELSE @]

\* one of the three loops over tables, fields and joins
merge_map(old_map, new_map) ==
    [k \in DOMAIN old_map \cup DOMAIN new_map |->
        IF k \in DOMAIN old_map
        THEN IF k \in DOMAIN new_map
             THEN merge_record(old_map[k], new_map[k])
             ELSE old_map[k]
        ELSE new_map[k]]

_merge_digests(old, new) ==
    [last_updated |-> new.last_updated,
     usage_count  |-> old.usage_count + new.usage_count,
     tables       |-> merge_map(old.tables, new.tables),
     fields       |-> merge_map(old.fields, new.fields),
     joins        |-> merge_map(old.joins, new.joins)]

\* the empty digest that _load_usage_digest creates
EmptyDigest ==
    [last_updated |-> 0, usage_count |-> 0,
     tables |-> <<>>, fields |-> <<>>, joins |-> <<>>]

\* _merge_digests(current_digest, new_digest) in update_usage_digest
MergeDigests ==
    /\ pc = "loaded"
    /\ merged_digest' = _merge_digests(old_digest, new_digest)
    /\ pc' = "merged"
    /\ UNCHANGED <<query, limit, verdict, outcome, db_query, old_digest, new_digest>>
    /\ UNCHANGED <<digest_vars, server_vars>>

\* a later refresh that observes the same batch: the merged digest is the
\* current digest of the next merge
MergeAgain ==
    /\ pc = "merged"
    /\ old_digest' = merged_digest
    /\ merged_digest' = _merge_digests(merged_digest, new_digest)
    /\ pc' = "merged again"
    /\ UNCHANGED <<query, limit, verdict, outcome, db_query, new_digest>>
    /\ UNCHANGED <<digest_vars, server_vars>>

(***************************************************************************)
(* Inputs.                                                                 *)
(***************************************************************************)
MaxFrags == 3

MaxLimit == 2

MaxTime == 2

MaxCount == 1

\* the most calls of update_usage_digest and advances of the clock in a run
MaxCalls == 2

MaxTicks == 2

\* the coroutines that call the pool at once
MaxCoroutines == 2

\* pool_size of the DBConnectionPool
MaxPoolSize == 1

\* the calls made on the pool
MaxPoolCalls == 5

\* the connections that pyodbc.connect opens
MaxOpened == 5

RECURSIVE Tails(_, _)
Tails(frags, k) ==
    IF k = 0 THEN {<<>>}
    ELSE Tails(frags, k - 1) \cup {f \o t : f \in frags, t \in Tails(frags, k - 1)}

Heads == {<<>>, <<"S", "E", "L", "E", "C", "T">>, <<"s", "e", "l", "e", "c", "t">>, <<"S", "E", "L", "E", "C", "T", " ", "*", " ", "F", "R", "O", "M", " ", "t">>,
          <<" ", "\n", "S", "e", "L", "e", "C", "t", " ", "*", " ", "F", "R", "O", "M", " ", "t">>, <<"D", "R", "O", "P", " ", "T", "A", "B", "L", "E", " ", "t">>}

Frags == {<<" ">>, <<"\n">>, <<";">>, <<"-", "-">>, <<"/", "*">>, <<"*", "/">>, <<"(">>, <<"x">>}

str_capitalize(s) == [i \in 1..Len(s) |-> IF i = 1 THEN upper_char(s[i]) ELSE lower_char(s[i])]

ProhibitedWords == {<<"I", "N", "S", "E", "R", "T">>, <<"U", "P", "D", "A", "T", "E">>, <<"D", "E", "L", "E", "T", "E">>, <<"D", "R", "O", "P">>, <<"A", "L", "T", "E", "R">>, <<"C", "R", "E", "A", "T", "E">>,
                    <<"T", "R", "U", "N", "C", "A", "T", "E">>, <<"E", "X", "E", "C">>, <<"E", "X", "E", "C", "U", "T", "E">>}

KeywordTexts ==
    ProhibitedWords
    \cup {<<"s", "p", "_">>, <<"x", "p", "_">>, <<"s", "p", "_", "w", "h", "o">>, <<"x", "p", "_", "c", "m", "d", "s", "h", "e", "l", "l">>,
          <<"I", "N", "T", "O", " ", "O", "U", "T", "F", "I", "L", "E">>, <<"I", "N", "T", "O", " ", "D", "U", "M", "P", "F", "I", "L", "E">>, <<"I", "N", "T", "O", " ", "\n", " ", "O", "U", "T", "F", "I", "L", "E">>}

KeywordPres == {<<"S", "E", "L", "E", "C", "T", " ">>, <<"S", "E", "L", "E", "C", "T", " ", "'">>, <<"S", "E", "L", "E", "C", "T", " ", "a", " ", "A", "S", " ">>, <<"S", "E", "L", "E", "C", "T", " ", "*", " ", "F", "R", "O", "M", " ", "t", ";", " ">>, <<"S", "E", "L", "E", "C", "T", " ", "x">>}

KeywordPosts == {<<>>, <<" ", "T", "A", "B", "L", "E", " ", "t">>, <<"'", " ", "F", "R", "O", "M", " ", "t">>, <<"x">>, <<"_">>}

KeywordQueries ==
    {pre \o kw \o post :
        pre \in KeywordPres,
        kw \in UNION {{str_upper(t), str_lower(t), str_capitalize(t)} : t \in KeywordTexts},
        post \in KeywordPosts}

SafeInputs == {h \o t : h \in Heads, t \in Tails(Frags, MaxFrags)} \cup KeywordQueries

ExecLeads == {<<>>, <<" ">>}

ExecVerbs == {<<"S", "E", "L", "E", "C", "T">>, <<"s", "e", "l", "e", "c", "t">>}

ExecGaps == {<<" ">>, <<" ", " ">>, <<"\n">>}

ExecClauses == {<<>>, <<"T", "O", "P", " ", "5", " ">>, <<"t", "o", "p", " ", "5", " ">>, <<"T", "O", "P", "(", "5", ")", " ">>}

ExecBodies == {<<"*", " ", "F", "R", "O", "M", " ", "t">>, <<"s", "t", "o", "p", " ", "F", "R", "O", "M", " ", "t">>, <<"a", " ", "F", "R", "O", "M", " ", "l", "a", "p", "t", "o", "p">>, <<"*", " ", "F", "R", "O", "M", " ", "t", " ", "L", "I", "M", "I", "T", " ", "5">>,
               <<"*", " ", "F", "R", "O", "M", " ", "t", " ", "F", "E", "T", "C", "H", " ", "F", "I", "R", "S", "T", " ", "5", " ", "R", "O", "W", "S", " ", "O", "N", "L", "Y">>, <<"*", " ", "F", "R", "O", "M", " ", "t", ";", " ", "T", "R", "U", "N", "C", "A", "T", "E", " ", "T", "A", "B", "L", "E", " ", "t">>,
               <<"*", " ", "F", "R", "O", "M", " ", "t", " ", "-", "-", "\n", "W", "H", "E", "R", "E", " ", "a", " ", "=", " ", "1">>, <<"a", " ", "F", "R", "O", "M", " ", "t", ";", " ", "(", "S", "E", "L", "E", "C", "T", " ", "b", " ", "F", "R", "O", "M", " ", "u", ")">>}

ExecTails == {<<>>, <<" ">>}

ExecInputs ==
    {<<>>, <<"S", "E", "L", "E", "C", "T", "*", " ", "F", "R", "O", "M", " ", "t">>, <<" ", "s", "e", "l", "e", "c", "t", "*", "F", "R", "O", "M", " ", "t">>} \cup
    {l \o v \o g \o c \o b \o t :
        l \in ExecLeads, v \in ExecVerbs, g \in ExecGaps,
        c \in ExecClauses, b \in ExecBodies, t \in ExecTails}

Limits == (-1)..MaxLimit

Times == 1..MaxTime

Counts == 1..MaxCount

Infos == {"catalog A", "catalog B"}

Records ==
    {[query_count |-> c, first_seen |-> f, last_seen |-> l, info |-> x] :
        c \in Counts, f \in Times, l \in Times, x \in Infos}

TableKey == "dbo.T1"

FieldKey == "dbo.T1.a"

JoinKey == "dbo.T1|dbo.T2"

\* a map holding the key with the record, or empty
MapOf(present, key, r) == IF present THEN (key :> r) ELSE <<>>

\* digests in which the keys present carry the same record, last updated
\* when that record was last seen
DigestsOf(recs, counts) ==
    {[last_updated |-> r.last_seen, usage_count |-> u,
      tables |-> MapOf(t, TableKey, r),
      fields |-> MapOf(f, FieldKey, r),
      joins  |-> MapOf(j, JoinKey, r)] :
        r \in recs, u \in counts, t \in BOOLEAN, f \in BOOLEAN, j \in BOOLEAN}

\* a persisted digest: each record was first seen no later than last seen
OldDigests == DigestsOf({r \in Records : r.first_seen <= r.last_seen}, 0..MaxCount)

\* a digest built by update_usage_digest: every record is stamped with now
NewDigests == DigestsOf({r \in Records : r.first_seen = r.last_seen}, Counts)

(***************************************************************************)
(* The digest tools at rest: no digest document, a reachable database, no  *)
(* call of update_usage_digest under way.                                  *)
(***************************************************************************)
\* the calls of update_usage_digest that can be under way at once
Handlers == {1, 2}

NoFile == [kind |-> "absent", doc |-> EmptyDigest]

\* the tables and foreign keys of the database the tools are run against
Database ==
    [up |-> TRUE,
     tables |->
        {[schema |-> <<"d", "b", "o">>, name |-> <<"T", "1">>, table_type |-> "BASE TABLE",
          row_count |-> 10, column_count |-> 2, columns |-> <<<<"i", "d">>, <<"n", "a", "m", "e">>>>],
         [schema |-> <<"d", "b", "o">>, name |-> <<"T", "2">>, table_type |-> "BASE TABLE",
          row_count |-> 20, column_count |-> 2, columns |-> <<<<"i", "d">>, <<"t", "1", "_", "i", "d">>>>],
         [schema |-> <<"h", "r">>, name |-> <<"P", "a", "y">>, table_type |-> "BASE TABLE",
          row_count |-> 30, column_count |-> 1, columns |-> <<<<"t", "1", "_", "i", "d">>>>]},
     foreign_keys |->
        {[pk_schema |-> <<"d", "b", "o">>, pk_table |-> <<"T", "1">>, pk_column |-> <<"i", "d">>,
          fk_schema |-> <<"d", "b", "o">>, fk_table |-> <<"T", "2">>, fk_column |-> <<"t", "1", "_", "i", "d">>]}]

NoLocal ==
    [current_digest |-> EmptyDigest, now |-> 0, force_refresh |-> FALSE,
     loaded |-> "none", query_stats |-> <<>>, new_digest |-> EmptyDigest]

NoCall ==
    /\ task = [h \in Handlers |-> "idle"]
    /\ local = [h \in Handlers |-> NoLocal]
    /\ result = [h \in Handlers |-> [status |-> "none"]]
    /\ reply = [status |-> "none"]
    /\ db_schemas = {}
    /\ step = <<"start", 0>>
    /\ runs = <<>>
    /\ calls = 0
    /\ ticks = 0

NoService ==
    /\ digest_file = NoFile
    /\ disk_ok = TRUE
    /\ clock = 0
    /\ database = Database
    /\ NoCall

\* the coroutines that use the connection pool
Coroutines == 1..MaxCoroutines

\* register_all_tools has not been called
NoLoader ==
    /\ success = TRUE
    /\ registered = {}
    /\ failed = {}
    /\ next_group = 1
    /\ returned = "None"

\* sql_mcp_server as imported: no connection cached (_conn is None, written 0)
NoConnection ==
    /\ _conn = 0
    /\ alive = {}
    /\ closed = {}
    /\ formats_ok = {"standard", "alternative"}
    /\ attempts = 0
    /\ conn_returned = "None"
    /\ opened = 0

\* DBConnectionPool.__init__
NoPool ==
    /\ pool = <<>>
    /\ in_use = {}
    /\ initialized = FALSE
    /\ lock = 0
    /\ connection_attempts = 0
    /\ coro = [p \in Coroutines |-> "idle"]
    /\ conn = [p \in Coroutines |-> 0]
    /\ error = [p \in Coroutines |-> "None"]
    /\ pool_calls = 0

NoServer == NoLoader /\ NoConnection /\ NoPool

(***************************************************************************)
(* Specifications.                                                         *)
(***************************************************************************)
Idle ==
    /\ verdict = FALSE
    /\ outcome = "none"
    /\ db_query = NoQuery

NoDigests ==
    /\ old_digest = EmptyDigest
    /\ new_digest = EmptyDigest
    /\ merged_digest = EmptyDigest

\* the query tools and the digest tools at rest
NoTool ==
    /\ query = <<>> /\ limit = 0 /\ pc = "none" /\ Idle /\ NoDigests
    /\ NoService

InitSafe ==
    /\ query \in SafeInputs
    /\ limit = 0
    /\ pc = "start"
    /\ Idle
    /\ NoDigests
    /\ NoService
    /\ NoServer

NextSafe == IsSafeQuery \/ ServerIsSafeQuery

SpecSafe == InitSafe /\ [][NextSafe]_vars

InitExec ==
    /\ query \in ExecInputs
    /\ limit \in Limits
    /\ pc = "start"
    /\ Idle
    /\ NoDigests
    /\ NoService
    /\ NoServer

NextExec == ExecuteSelect \/ QueryExecuteSelect \/ ExportData

SpecExec == InitExec /\ [][NextExec]_vars

InitMerge ==
    /\ query = <<>>
    /\ limit = 0
    /\ pc = "loaded"
    /\ Idle
    /\ old_digest \in OldDigests
    /\ new_digest \in NewDigests
    /\ merged_digest = EmptyDigest
    /\ NoService
    /\ NoServer

NextMerge == MergeDigests \/ MergeAgain

SpecMerge == InitMerge /\ [][NextMerge]_vars

TypeOK ==
    /\ verdict \in BOOLEAN
    /\ outcome \in {"none", "raised", "rejected", "executed"}
    /\ limit \in Limits \cup {0}

(***************************************************************************)
(* Vocabulary of the properties: tokens (maximal runs of word characters)  *)
(* and the four rules of the validator as the specification words them.    *)
(***************************************************************************)
IsToken(s, i, j) ==
    /\ i >= 1 /\ i <= j /\ j <= Len(s)
    /\ AllWord(s, i, j)
    /\ ~IsWordAt(s, i - 1)
    /\ ~IsWordAt(s, j + 1)

TokenIs(s, i, text) ==
    /\ IsToken(s, i, i + Len(text) - 1)
    /\ str_upper(SubSeq(s, i, i + Len(text) - 1)) = str_upper(text)

HasToken(s, text) == \E i \in 1..Len(s) : TokenIs(s, i, text)

\* a token that begins with the prefix and has at least extra more characters
HasTokenBeginning(s, prefix, extra) ==
    \E i \in 1..Len(s) : \E j \in i..Len(s) :
        /\ IsToken(s, i, j)
        /\ j - i + 1 >= Len(prefix) + extra
        /\ str_upper(SubSeq(s, i, i + Len(prefix) - 1)) = str_upper(prefix)

\* token a, whitespace, token b
HasPhrase(s, a, b) ==
    \E i \in 1..Len(s) : \E j \in (i + Len(a) + 1)..Len(s) :
        /\ TokenIs(s, i, a)
        /\ AllSpace(s, i + Len(a), j - 1)
        /\ TokenIs(s, j, b)

\* the number of whitespace characters before the first other character
LeadingSpaces(s) == Cardinality({n \in 1..Len(s) : AllSpace(s, 1, n)})

\* after trimming, the query begins with the keyword SELECT
StartsWithSelect(q) == TokenIs(q, LeadingSpaces(q) + 1, <<"S", "E", "L", "E", "C", "T">>)

\* after trimming, the query begins with the letters SELECT
StartsWithSelectLetters(q) == MatchCI(q, LeadingSpaces(q) + 1, <<"S", "E", "L", "E", "C", "T">>)

\* a prohibited word, a token beginning sp_ or xp_ with at least extra more
\* characters, or INTO OUTFILE / INTO DUMPFILE
ContainsProhibited(q, extra) ==
    \/ \E w \in ProhibitedWords : HasToken(q, w)
    \/ HasTokenBeginning(q, <<"s", "p", "_">>, extra)
    \/ HasTokenBeginning(q, <<"x", "p", "_">>, extra)
    \/ HasPhrase(q, <<"I", "N", "T", "O">>, <<"O", "U", "T", "F", "I", "L", "E">>)
    \/ HasPhrase(q, <<"I", "N", "T", "O">>, <<"D", "U", "M", "P", "F", "I", "L", "E">>)

\* a semicolon followed, after optional whitespace, by non-whitespace content
StackedStatement(q) ==
    \E i \in 1..Len(q) : \E j \in (i + 1)..Len(q) :
        /\ q[i] = ";"
        /\ AllSpace(q, i + 1, j - 1)
        /\ ~IsSpace(q[j])

\* a -- that ends a line: only blanks between it and the line's end
CommentAtLineEnd(q) ==
    \E i \in 1..(Len(q) - 1) : \E e \in (i + 2)..(Len(q) + 1) :
        /\ q[i] = "-" /\ q[i + 1] = "-"
        /\ \A k \in (i + 2)..(e - 1) : IsSpace(q[k]) /\ q[k] # "\n"
        /\ (e = Len(q) + 1 \/ q[e] = "\n")

BlockCommentDelimiter(q) == str_contains(q, <<"/", "*">>) \/ str_contains(q, <<"*", "/">>)

PassesAllRules(q) ==
    /\ StartsWithSelect(q)
    /\ ~ContainsProhibited(q, 0)
    /\ ~StackedStatement(q)
    /\ ~CommentAtLineEnd(q)
    /\ ~BlockCommentDelimiter(q)

\* a TOP or LIMIT token, or FETCH FIRST
HasLimitClause(q) ==
    \/ HasToken(q, <<"T", "O", "P">>)
    \/ HasToken(q, <<"L", "I", "M", "I", "T">>)
    \/ HasPhrase(q, <<"F", "E", "T", "C", "H">>, <<"F", "I", "R", "S", "T">>)

\* the string without its whitespace
Squeeze(s) == SelectSeq(s, LAMBDA c : ~IsSpace(c))

\* r is q with TOP n right after the leading SELECT, whitespace aside
IsTopInjection(q, n, r) ==
    LET head == <<"S", "E", "L", "E", "C", "T", "T", "O", "P">> \o int_to_str(n)
    IN  /\ StartsWithSelectLetters(q)
        /\ str_startswith(str_upper(Squeeze(r)), head)
        /\ str_from(Squeeze(r), Len(head)) = str_from(Squeeze(q), Len(<<"S", "E", "L", "E", "C", "T">>))

ExecutedBy(tools) == pc \in tools /\ outcome = "executed"

AllTools == {"execute_select", "query_execute_select", "export_data"}

\* the row-limit rewrite of the tool that ran
AppliedAgain ==
    CASE pc = "execute_select" -> server_apply_top(db_query, limit)
      [] pc = "query_execute_select" -> query_apply_top(db_query, limit)
      [] pc = "export_data" -> export_apply_limit(db_query, limit)

(***************************************************************************)
(* Properties.                                                             *)
(***************************************************************************)
\* C1: is_safe_query returns false for every query in which a semicolon is
\* followed, after optional whitespace, by further non-whitespace content,
\* whatever the first character of that content is.
C1_StackedRejected ==
    (pc = "is_safe_query" /\ StackedStatement(query)) => verdict = FALSE

\* C2 as stated: a query that starts with SELECT and holds a prohibited word,
\* any token beginning sp_ or xp_ (the bare token sp_ included), or INTO
\* OUTFILE / INTO DUMPFILE is rejected.
C2_ProhibitedRejectedAsStated ==
    (pc = "is_safe_query" /\ StartsWithSelect(query) /\ ContainsProhibited(query, 0))
        => verdict = FALSE

\* C2: a query that starts with SELECT and holds, as a whole word in any
\* letter case and at any position, a prohibited word, a token made of sp_ or
\* xp_ and at least one more word character, or INTO OUTFILE / INTO DUMPFILE
\* is rejected, also inside a string literal or an alias.
C2_ProhibitedRejected ==
    (pc = "is_safe_query" /\ StartsWithSelect(query) /\ ContainsProhibited(query, 1))
        => verdict = FALSE

C2_Witness ==
    /\ pc = "is_safe_query"
    /\ query = <<"S", "E", "L", "E", "C", "T", " ", "'", "d", "r", "o", "p", "'", " ", "F", "R", "O", "M", " ", "t">>
    /\ ContainsProhibited(query, 1)
    /\ verdict = FALSE

C4_CommentRejected ==
    (pc = "is_safe_query" /\ (CommentAtLineEnd(query) \/ BlockCommentDelimiter(query)))
        => verdict = FALSE

\* SELECT * FROM t, alone or with one trailing semicolon, then only whitespace
IsPlainSelect(q) ==
    LET base == <<"S", "E", "L", "E", "C", "T", " ", "*", " ", "F", "R", "O", "M", " ", "t">>
        rest == str_from(q, Len(base))
    IN  /\ str_startswith(q, base)
        /\ \/ AllSpace(rest, 1, Len(rest))
           \/ (rest[1] = ";" /\ AllSpace(rest, 2, Len(rest)))

\* C5: a query for which every rule holds is accepted; SELECT * FROM t is,
\* and so is the same query with a single trailing semicolon followed by
\* nothing or by whitespace.
C5_SafeAccepted ==
    pc = "is_safe_query" =>
        /\ PassesAllRules(query) => verdict = TRUE
        /\ IsPlainSelect(query) => verdict = TRUE

C5_Witness ==
    /\ pc = "is_safe_query"
    /\ query = <<"S", "E", "L", "E", "C", "T", " ", "*", " ", "F", "R", "O", "M", " ", "t", ";", " ">>
    /\ PassesAllRules(query)
    /\ verdict = TRUE

\* C6: every query that execute_select hands to the database passed the four
\* rules: starts with SELECT, no prohibited keyword (TRUNCATE included), no
\* stacked statement, no comment marker.
C6_OnlyValidatedReachDatabase ==
    ExecutedBy({"execute_select", "query_execute_select"}) => PassesAllRules(query)

\* C7: for a validated query without a limiting clause and a positive limit
\* N, the query handed on has TOP N right after the leading SELECT and is
\* otherwise unchanged, leading whitespace or not.
C7_TopInjected ==
    (ExecutedBy(AllTools) /\ limit > 0 /\ ~HasLimitClause(query))
        => IsTopInjection(query, limit, db_query)

\* the tool that ran took the query as already limited
TakenAsLimited ==
    CASE pc = "execute_select" -> server_has_top(str_strip(query))
      [] pc = "query_execute_select" -> query_has_top(query)
      [] pc = "export_data" -> export_has_limit(str_upper(query))

\* C8: a query that already has a limiting clause is handed on unchanged
\* (its outer whitespace aside), rewriting the rewritten query changes
\* nothing, and a query is taken as limited only when it has such a clause.
C8_InjectionIdempotent ==
    (ExecutedBy(AllTools) /\ limit > 0) =>
        /\ HasLimitClause(query) => str_strip(db_query) = str_strip(query)
        /\ AppliedAgain = db_query
        /\ TakenAsLimited => HasLimitClause(query)

Merged == pc \in {"merged", "merged again"}

MapsOf(d) == <<d.tables, d.fields, d.joins>>

InBoth(n) == DOMAIN MapsOf(old_digest)[n] \cap DOMAIN MapsOf(new_digest)[n]

\* C9: the merged usage_count is the sum; each map's keys are the union of
\* both sides; a key of both has the sum of the counts; a key of one side
\* has that side's record.
C9_MergeSums ==
    Merged =>
        /\ merged_digest.usage_count = old_digest.usage_count + new_digest.usage_count
        /\ \A n \in 1..3 :
            LET o == MapsOf(old_digest)[n]
                w == MapsOf(new_digest)[n]
                m == MapsOf(merged_digest)[n]
            IN  /\ DOMAIN m = DOMAIN o \cup DOMAIN w
                /\ \A k \in DOMAIN o \cap DOMAIN w :
                       m[k].query_count = o[k].query_count + w[k].query_count
                /\ \A k \in DOMAIN o \ DOMAIN w : m[k] = o[k]
                /\ \A k \in DOMAIN w \ DOMAIN o : m[k] = w[k]

C9_Witness ==
    /\ pc = "merged"
    /\ InBoth(1) # {}
    /\ DOMAIN old_digest.fields # {} /\ DOMAIN new_digest.fields = {}
    /\ DOMAIN old_digest.joins = {} /\ DOMAIN new_digest.joins # {}
    /\ merged_digest.tables[TableKey].query_count >= 2

Earlier(a, b) == IF a < b THEN a ELSE b

Later(a, b) == IF a > b THEN a ELSE b

\* C10: for a key of both digests the merge records the earlier first_seen
\* and the later last_seen, whichever side is the more recent.
C10_SeenRange ==
    Merged =>
        \A n \in 1..3 : \A k \in InBoth(n) :
            LET o == MapsOf(old_digest)[n][k]
                w == MapsOf(new_digest)[n][k]
                m == MapsOf(merged_digest)[n][k]
            IN  /\ m.first_seen = Earlier(o.first_seen, w.first_seen)
                /\ m.last_seen = Later(o.last_seen, w.last_seen)

\* C17: a query that fails the validator of the execute_select it is given
\* to comes back as an error result (a value with an error and its details),
\* never as a raised exception, and nothing is handed to the database.
C17_StructuredRejection ==
    (pc \in {"execute_select", "query_execute_select"} /\ ~verdict)
        => (outcome = "rejected" /\ db_query = NoQuery)

(***************************************************************************)
(* str methods the usage digest uses: split, strip(chars), replace, join.  *)
(***************************************************************************)
\* s[from..to]
str_slice(s, from, to) == SubSeq(s, from, to)

\* sub occurs in s at position i
str_at(s, i, sub) ==
    /\ i >= 1
    /\ i + Len(sub) - 1 <= Len(s)
    /\ SubSeq(s, i, i + Len(sub) - 1) = sub

\* s.find(sub) counted from 1, 0 when sub is not in s
str_find(s, sub) ==
    IF \E i \in 1..Len(s) : str_at(s, i, sub)
    THEN CHOOSE i \in 1..Len(s) :
             str_at(s, i, sub) /\ \A j \in 1..(i - 1) : ~str_at(s, j, sub)
    ELSE 0

str_endswith(s, suffix) ==
    /\ Len(suffix) <= Len(s)
    /\ SubSeq(s, Len(s) - Len(suffix) + 1, Len(s)) = suffix

\* s.split(): the maximal runs of characters that are not whitespace
RECURSIVE str_split(_)
str_split(s) ==
    IF \A i \in 1..Len(s) : IsSpace(s[i]) THEN <<>>
    ELSE LET b == CHOOSE i \in 1..Len(s) :
                      ~IsSpace(s[i]) /\ \A j \in 1..(i - 1) : IsSpace(s[j])
             e == CHOOSE i \in b..Len(s) :
                      /\ \A j \in b..i : ~IsSpace(s[j])
                      /\ (i = Len(s) \/ IsSpace(s[i + 1]))
         IN  <<SubSeq(s, b, e)>> \o str_split(SubSeq(s, e + 1, Len(s)))

\* s.split(sep)
RECURSIVE str_split_at(_, _)
str_split_at(s, sep) ==
    LET i == str_find(s, sep)
    IN  IF i = 0 THEN <<s>>
        ELSE <<SubSeq(s, 1, i - 1)>>
                 \o str_split_at(SubSeq(s, i + Len(sep), Len(s)), sep)

\* s.split(sep, 1)
str_split_once(s, sep) ==
    LET i == str_find(s, sep)
    IN  IF i = 0 THEN <<s>>
        ELSE <<SubSeq(s, 1, i - 1), SubSeq(s, i + Len(sep), Len(s))>>

\* s.strip(chars)
str_strip_chars(s, chars) ==
    IF \A i \in 1..Len(s) : s[i] \in chars THEN <<>>
    ELSE LET b == CHOOSE i \in 1..Len(s) :
                      s[i] \notin chars /\ \A j \in 1..(i - 1) : s[j] \in chars
             e == CHOOSE i \in 1..Len(s) :
                      s[i] \notin chars /\ \A j \in (i + 1)..Len(s) : s[j] \in chars
         IN  SubSeq(s, b, e)

\* s.replace(old, new)
RECURSIVE str_replace(_, _, _)
str_replace(s, old, new) ==
    LET i == str_find(s, old)
    IN  IF i = 0 THEN s
        ELSE SubSeq(s, 1, i - 1) \o new
                 \o str_replace(SubSeq(s, i + Len(old), Len(s)), old, new)

\* sep.join(parts)
RECURSIVE str_join(_, _)
str_join(parts, sep) ==
    IF Len(parts) = 0 THEN <<>>
    ELSE IF Len(parts) = 1 THEN parts[1]
    ELSE parts[1] \o sep \o str_join(Tail(parts), sep)

\* str.isalpha() of one character
is_alpha(c) == c \in Range(LowerLetters) \cup Range(UpperLetters)

\* the characters that strip('[](){},;') removes
PunctuationChars == {"[", "]", "(", ")", "{", "}", ",", ";"}

\* replace('[', '').replace(']', '')
no_brackets(s) == str_replace(str_replace(s, <<"[">>, <<>>), <<"]">>, <<>>)

\* the value None
None == <<"None">>

(***************************************************************************)
(* src/sqlmcp/tools/usage_digest.py : extraction of tables, fields and     *)
(* joins from the text of a query.                                         *)
(***************************************************************************)
TableKeywords == {<<"F", "R", "O", "M">>, <<"J", "O", "I", "N">>, <<"I", "N", "T", "O">>, <<"U", "P", "D", "A", "T", "E">>}

NotTables == {<<"S", "E", "L", "E", "C", "T">>, <<"W", "I", "T", "H">>, <<"A", "S">>, <<"O", "N">>}

_extract_tables_from_query(query_text) ==
    LET query_parts == str_split(query_text)
        table_ref(i) == str_strip_chars(query_parts[i + 1], PunctuationChars)
    IN  {no_brackets(table_ref(i)) :
            i \in {j \in 1..(Len(query_parts) - 1) :
                      /\ query_parts[j] \in TableKeywords
                      /\ table_ref(j) # <<>>
                      /\ str_upper(table_ref(j)) \notin NotTables}}

\* the clause keywords in the order of the clauses dictionary
ClauseKeywords == <<<<"S", "E", "L", "E", "C", "T">>, <<"W", "H", "E", "R", "E">>, <<"G", "R", "O", "U", "P", " ", "B", "Y">>, <<"O", "R", "D", "E", "R", " ", "B", "Y">>>>

\* the index of the first clause keyword that the stripped line starts with
\* in either case, 0 when there is none
clause_of_line(line) ==
    LET hits == {c \in 1..Len(ClauseKeywords) :
                    \/ str_startswith(line, ClauseKeywords[c])
                    \/ str_startswith(line, str_lower(ClauseKeywords[c]))}
    IN  IF hits = {} THEN 0 ELSE CHOOSE c \in hits : \A d \in hits : c <= d

\* the loop over the lines: clauses maps each clause keyword to its text
RECURSIVE collect_clauses(_, _, _)
collect_clauses(lines, current_clause, clauses) ==
    IF lines = <<>> THEN clauses
    ELSE LET stripped == str_strip(lines[1])
             c == clause_of_line(stripped)
             now_clause == IF c = 0 THEN current_clause ELSE c
             line == IF c = 0 THEN stripped
                     ELSE str_strip(SubSeq(stripped, Len(ClauseKeywords[c]) + 1,
                                           Len(stripped)))
         IN  collect_clauses(Tail(lines), now_clause,
                 IF now_clause = 0 THEN clauses
                 ELSE [clauses EXCEPT ![now_clause] = @ \o <<" ">> \o line])

\* the fields of the SELECT clause
select_fields(clause) ==
    IF clause = <<>> THEN {}
    ELSE LET select_items == str_split_at(clause, <<",">>)
             item(i) == str_strip(select_items[i])
             unaliased(i) ==
                 IF str_contains(str_upper(item(i)), <<" ", "A", "S", " ">>)
                 THEN str_strip(str_split_at(item(i), <<" ", "A", "S", " ">>)[1])
                 ELSE item(i)
         IN  {unaliased(i) :
                 i \in {j \in 1..Len(select_items) :
                           /\ item(j) # <<"*">>
                           /\ ~str_endswith(item(j), <<".", "*">>)
                           /\ ~str_contains(unaliased(j), <<"(">>)}}

\* the fields of the WHERE clause
where_fields(clause) ==
    IF clause = <<>> THEN {}
    ELSE LET where_parts ==
                 str_split(str_replace(str_replace(clause, <<" ", "A", "N", "D", " ">>, <<" ">>),
                                       <<" ", "O", "R", " ">>, <<" ">>))
             field(i) ==
                 str_strip_chars(
                     IF str_contains(where_parts[i], <<"=">>)
                     THEN str_strip(str_split_at(where_parts[i], <<"=">>)[1])
                     ELSE str_strip(where_parts[i]),
                     PunctuationChars)
         IN  {field(i) :
                 i \in {j \in 1..Len(where_parts) :
                           /\ str_contains(where_parts[j], <<".">>)
                           /\ ~str_contains(where_parts[j], <<"(">>)
                           /\ field(j) # <<>>}}

\* brackets and quotes removed, then a leading one-letter alias removed
clean_field(field) ==
    LET clean == str_replace(str_replace(no_brackets(field), <<"\"">>, <<>>), <<"'">>, <<>>)
    IN  IF Len(clean) > 2 /\ clean[2] = "." /\ is_alpha(clean[1])
        THEN SubSeq(clean, 3, Len(clean))
        ELSE clean

_extract_fields_from_query(query_text) ==
    LET clauses == collect_clauses(str_split_at(query_text, <<"\n">>), 0,
                                   [c \in 1..4 |-> <<>>])
    IN  {clean_field(f) : f \in select_fields(clauses[1]) \cup where_fields(clauses[2])}

\* the join keywords in the order the loop tries them
join_types == <<<<"J", "O", "I", "N">>, <<"I", "N", "N", "E", "R", " ", "J", "O", "I", "N">>, <<"L", "E", "F", "T", " ", "J", "O", "I", "N">>, <<"R", "I", "G", "H", "T", " ", "J", "O", "I", "N">>, <<"F", "U", "L", "L", " ", "J", "O", "I", "N">>, <<"C", "R", "O", "S", "S", " ", "J", "O", "I", "N">>>>

\* the elements of a set in one of the orders a set can be iterated in
RECURSIVE set_to_seq(_)
set_to_seq(S) ==
    IF S = {} THEN <<>>
    ELSE LET x == CHOOSE y \in S : TRUE
         IN  <<x>> \o set_to_seq(S \ {x})

\* the first token of the text after the first occurrence of keyword, with
\* punctuation stripped; the empty string when nothing follows
token_after(line, keyword) ==
    LET parts == str_split(str_strip(str_split_once(line, keyword)[2]))
    IN  IF parts = <<>> THEN <<>> ELSE str_strip_chars(parts[1], PunctuationChars)

\* the text of the ON clause up to the first AND, None without ON or without =
join_fields_of(line) ==
    IF ~str_contains(line, <<"O", "N">>) THEN None
    ELSE LET on_clause == str_strip(str_split_once(line, <<"O", "N">>)[2])
         IN  IF str_contains(on_clause, <<"=">>)
             THEN str_strip(str_split_at(on_clause, <<"A", "N", "D">>)[1])
             ELSE None

\* the loop over join_types for one line: st holds the joins found so far
\* and the tables seen so far
RECURSIVE joins_of_line(_, _, _)
joins_of_line(line, t, st) ==
    IF t > Len(join_types) THEN st
    ELSE IF /\ str_contains(line, join_types[t])
            /\ str_split(str_strip(str_split_once(line, join_types[t])[2])) # <<>>
         THEN LET joined_table == no_brackets(token_after(line, join_types[t]))
                  before == set_to_seq(st.current_tables)
              IN  joins_of_line(line, t + 1,
                      [st EXCEPT
                          !.joins = @ \o [i \in 1..Len(before) |->
                                             <<before[i], joined_table, join_fields_of(line)>>],
                          !.current_tables = @ \cup {joined_table}])
         ELSE joins_of_line(line, t + 1, st)

\* the loop over the lines
RECURSIVE joins_of_lines(_, _)
joins_of_lines(lines, st) ==
    IF lines = <<>> THEN st.joins
    ELSE LET line == str_upper(str_strip(lines[1]))
             table == token_after(line, <<"F", "R", "O", "M">>)
             from_here == str_contains(line, <<"F", "R", "O", "M">>) /\ ~st.from_encountered
             st1 == IF from_here
                    THEN [st EXCEPT
                             !.from_encountered = TRUE,
                             !.current_tables =
                                 IF table # <<>> THEN @ \cup {no_brackets(table)} ELSE @]
                    ELSE st
         IN  joins_of_lines(Tail(lines), joins_of_line(line, 1, st1))

\* the list of (table, joined table, join fields) tuples
_extract_joins_from_query(query_text) ==
    joins_of_lines(str_split_at(query_text, <<"\n">>),
                   [joins |-> <<>>, current_tables |-> {}, from_encountered |-> FALSE])

(***************************************************************************)
(* src/sqlmcp/tools/usage_digest.py : update_usage_digest builds the new   *)
(* digest from the rows of the query statistics.  A timestamp is the       *)
(* number of seconds on the clock (datetime.now()).                        *)
(***************************************************************************)
\* schema and name of a table reference: the first two parts when there is
\* a dot, otherwise the default schema and the reference itself
table_schema_of(table) ==
    LET table_parts == str_split_at(table, <<".">>)
    IN  IF Len(table_parts) > 1 THEN table_parts[1] ELSE <<"d", "b", "o">>

table_name_of(table) ==
    LET table_parts == str_split_at(table, <<".">>)
    IN  IF Len(table_parts) > 1 THEN table_parts[2] ELSE table_parts[1]

\* the rows the query on sys.tables returns for (schema, name); the
\* database compares names without regard to case
table_info_result(catalog, schema, name) ==
    {t \in catalog : /\ t.table_type = "BASE TABLE"
                     /\ str_upper(t.schema) = str_upper(schema)
                     /\ str_upper(t.name) = str_upper(name)}

\* the record of a table seen for the first time in the batch
new_table_record(catalog, table, execution_count, now) ==
    LET schema == table_schema_of(table)
        table_name == table_name_of(table)
        found == table_info_result(catalog, schema, table_name)
    IN  IF found # {}
        THEN LET table_info == CHOOSE t \in found : TRUE
             IN  [schema |-> schema, name |-> table_name,
                  query_count |-> execution_count,
                  row_count |-> table_info.row_count,
                  column_count |-> table_info.column_count,
                  create_date |-> None, modify_date |-> None,
                  first_seen |-> now, last_seen |-> now]
        ELSE [schema |-> schema, name |-> table_name,
              query_count |-> execution_count,
              first_seen |-> now, last_seen |-> now]

\* the record of a field seen for the first time in the batch
new_field_record(field, execution_count, now) ==
    LET parts == str_split_at(field, <<".">>)
    IN  [name |-> parts[Len(parts)],
         table |-> IF Len(parts) >= 2
                   THEN str_join(SubSeq(parts, 1, Len(parts) - 1), <<".">>)
                   ELSE None,
         query_count |-> execution_count,
         first_seen |-> now, last_seen |-> now]

\* the record of a join seen for the first time in the batch
new_join_record(join, execution_count, now) ==
    [table1 |-> join[1], table2 |-> join[2],
     query_count |-> execution_count,
     join_fields |-> join[3],
     first_seen |-> now, last_seen |-> now]

\* a key met again in the batch
seen_again(info, execution_count, now) ==
    [info EXCEPT !.query_count = @ + execution_count, !.last_seen = now]

\* the loop over the tables of one query
add_tables(map, tables, catalog, execution_count, now) ==
    [k \in DOMAIN map \cup tables |->
        IF k \in DOMAIN map
        THEN IF k \in tables THEN seen_again(map[k], execution_count, now) ELSE map[k]
        ELSE new_table_record(catalog, k, execution_count, now)]

\* the loop over the fields of one query
add_fields(map, fields, execution_count, now) ==
    [k \in DOMAIN map \cup fields |->
        IF k \in DOMAIN map
        THEN IF k \in fields THEN seen_again(map[k], execution_count, now) ELSE map[k]
        ELSE new_field_record(k, execution_count, now)]

join_key_of(join) == join[1] \o <<"|">> \o join[2]

\* the loop over the joins of one query; a list, so a join can come twice
RECURSIVE add_joins(_, _, _, _)
add_joins(map, joins, execution_count, now) ==
    IF joins = <<>> THEN map
    ELSE LET join_key == join_key_of(joins[1])
         IN  add_joins(
                 [k \in DOMAIN map \cup {join_key} |->
                     IF k # join_key THEN map[k]
                     ELSE IF k \in DOMAIN map
                          THEN seen_again(map[k], execution_count, now)
                          ELSE new_join_record(joins[1], execution_count, now)],
                 Tail(joins), execution_count, now)

\* the shortest query text that is analysed
MIN_QUERY_LENGTH == 10

\* the loop over query_stats
RECURSIVE add_query_stats(_, _, _, _)
add_query_stats(digest, query_stats, catalog, now) ==
    IF query_stats = <<>> THEN digest
    ELSE LET query_text == str_upper(query_stats[1].query_text)
             execution_count == query_stats[1].execution_count
         IN  add_query_stats(
                 IF Len(query_text) < MIN_QUERY_LENGTH THEN digest
                 ELSE [digest EXCEPT
                          !.tables = add_tables(@, _extract_tables_from_query(query_text),
                                                catalog, execution_count, now),
                          !.fields = add_fields(@, _extract_fields_from_query(query_text),
                                                execution_count, now),
                          !.joins = add_joins(@, _extract_joins_from_query(query_text),
                                              execution_count, now)],
                 Tail(query_stats), catalog, now)

\* new_digest of update_usage_digest
build_new_digest(query_stats, catalog, now) ==
    add_query_stats([last_updated |-> now, usage_count |-> Len(query_stats),
                     tables |-> <<>>, fields |-> <<>>, joins |-> <<>>],
                    query_stats, catalog, now)

(***************************************************************************)
(* src/sqlmcp/tools/usage_digest.py : the persisted digest document and    *)
(* the tools that load it.  digest_file.kind tells what the file at the    *)
(* digest path holds: nothing ("absent"), a digest ("digest"), the JSON    *)
(* that export_usage_report writes ("report") or text that json.load       *)
(* rejects ("unreadable").                                                 *)
(***************************************************************************)
\* the seconds within which a digest counts as recently updated
FRESHNESS_SECONDS == 86400

\* an empty digest that does not hold the time it was made at
empty_digest_unstamped(now) == EmptyDigest

\* the digest of lines 62-68 and 82-88
empty_digest(now) == [EmptyDigest EXCEPT !.last_updated = now]

DigestFile(digest) == [kind |-> "digest", doc |-> digest]

\* _load_usage_digest: the value returned ("raised" when the call raises,
\* "report" when the JSON loaded is not a digest) and the file afterwards.
\* A missing file is created with the empty digest; a file that cannot be
\* read or parsed gives the empty digest without being written.
_load_usage_digest(file, disk, now) ==
    CASE file.kind = "absent" /\ disk ->
            [value |-> "digest", digest |-> empty_digest(now),
             file |-> DigestFile(empty_digest(now))]
      [] file.kind = "absent" /\ ~disk ->
            [value |-> "raised", digest |-> EmptyDigest, file |-> file]
      [] file.kind = "digest" /\ disk ->
            [value |-> "digest", digest |-> file.doc, file |-> file]
      [] file.kind = "report" /\ disk ->
            [value |-> "report", digest |-> EmptyDigest, file |-> file]
      [] OTHER ->
            [value |-> "digest", digest |-> empty_digest(now), file |-> file]

\* _save_usage_digest: the file afterwards; the digest is stamped with the
\* time of the save, and a failed write is logged and nothing else
_save_usage_digest(file, digest, disk, now) ==
    IF disk THEN DigestFile([digest EXCEPT !.last_updated = now]) ELSE file

\* the result of a tool whose body raised
failure(what) == [error |-> what, details |-> "exception"]

\* lines 367-380 for handler h: merge, save and the success result
merge_and_save(h, loc) ==
    LET merged == _merge_digests(loc.current_digest, loc.new_digest)
    IN  /\ digest_file' = _save_usage_digest(digest_file, merged, disk_ok, clock)
        /\ result' = [result EXCEPT ![h] =
               [status |-> "success",
                tables_analyzed |-> Cardinality(DOMAIN merged.tables),
                fields_analyzed |-> Cardinality(DOMAIN merged.fields),
                joins_analyzed |-> Cardinality(DOMAIN merged.joins),
                last_updated |-> loc.now]]
        /\ task' = [task EXCEPT ![h] = "idle"]
        /\ runs' = Append(runs, [handler |-> h, query_stats |-> loc.query_stats,
                                 saved |-> disk_ok])
        /\ step' = <<"merged", h>>

\* line 206: the digest counts as recently updated
recently_updated_to_the_second(now, last_updated) == now - last_updated <= FRESHNESS_SECONDS

recently_updated(now, last_updated) == now - last_updated < FRESHNESS_SECONDS

\* update_usage_digest up to its first await (lines 200-235): the digest is
\* loaded, and the call returns "skipped" unless the refresh is forced or
\* the digest is at least FRESHNESS_SECONDS old
UpdateUsageDigest(h, force_refresh) ==
    /\ task[h] = "idle"
    /\ calls < MaxCalls
    /\ calls' = calls + 1
    /\ LET loaded == _load_usage_digest(digest_file, disk_ok, clock)
           current_digest == loaded.digest
           last_updated == current_digest.last_updated
           now == clock
       IN  /\ digest_file' = loaded.file
           /\ local' = [local EXCEPT ![h] =
                  [current_digest |-> current_digest, now |-> now,
                   force_refresh |-> force_refresh, loaded |-> loaded.value,
                   query_stats |-> <<>>, new_digest |-> EmptyDigest]]
           /\ IF loaded.value # "digest"
              THEN /\ result' = [result EXCEPT ![h] = failure("Failed to update usage digest")]
                   /\ task' = task
                   /\ step' = <<"failed", h>>
              ELSE IF ~force_refresh /\ recently_updated(now, last_updated)
              THEN /\ result' = [result EXCEPT ![h] =
                          [status |-> "skipped", last_updated |-> last_updated]]
                   /\ task' = task
                   /\ step' = <<"skipped", h>>
              ELSE /\ result' = [result EXCEPT ![h] = [status |-> "running"]]
                   /\ task' = [task EXCEPT ![h] = "query_stats"]
                   /\ step' = <<"begun", h>>
    /\ UNCHANGED <<clock, disk_ok, database, runs, ticks, reply, db_schemas>>
    /\ UNCHANGED <<query_vars, server_vars>>

\* tools/digest.py refresh_table_field_digest: update_usage_digest called
\* with force_refresh=True
RefreshTableFieldDigest(h) == UpdateUsageDigest(h, TRUE)

\* the await of the query statistics returns (lines 235-365): no rows give
\* the "No query statistics found" result; a failed query raises; otherwise
\* the new digest is built, and merged at once unless a table of the batch
\* has to be looked up in the catalog first (the await of line 299)
UpdateQueryStats(h, query_stats) ==
    /\ task[h] = "query_stats"
    /\ IF ~database.up
       THEN /\ result' = [result EXCEPT ![h] = failure("Failed to update usage digest")]
            /\ task' = [task EXCEPT ![h] = "idle"]
            /\ step' = <<"failed", h>>
            /\ UNCHANGED <<local, digest_file, runs>>
       ELSE IF query_stats = <<>>
       THEN /\ result' = [result EXCEPT ![h] =
                   [status |-> "error", message |-> "No query statistics found",
                    last_updated |-> local[h].current_digest.last_updated]]
            /\ task' = [task EXCEPT ![h] = "idle"]
            /\ step' = <<"no statistics", h>>
            /\ UNCHANGED <<local, digest_file, runs>>
       ELSE LET loc == [local[h] EXCEPT
                           !.query_stats = query_stats,
                           !.new_digest = build_new_digest(query_stats, database.tables,
                                                           local[h].now)]
            IN  /\ local' = [local EXCEPT ![h] = loc]
                /\ IF DOMAIN loc.new_digest.tables # {}
                   THEN /\ task' = [task EXCEPT ![h] = "table_info"]
                        /\ step' = <<"analysed", h>>
                        /\ UNCHANGED <<result, digest_file, runs>>
                   ELSE merge_and_save(h, loc)
    /\ UNCHANGED <<clock, disk_ok, database, calls, ticks, reply, db_schemas>>
    /\ UNCHANGED <<query_vars, server_vars>>

\* the await of the last catalog lookup returns (lines 299-380): a failed
\* lookup raises, otherwise the digests are merged and saved
UpdateTableInfo(h) ==
    /\ task[h] = "table_info"
    /\ IF ~database.up
       THEN /\ result' = [result EXCEPT ![h] = failure("Failed to update usage digest")]
            /\ task' = [task EXCEPT ![h] = "idle"]
            /\ step' = <<"failed", h>>
            /\ UNCHANGED <<digest_file, runs>>
       ELSE merge_and_save(h, local[h])
    /\ UNCHANGED <<local, clock, disk_ok, database, calls, ticks, reply, db_schemas>>
    /\ UNCHANGED <<query_vars, server_vars>>

\* time passes
Tick(seconds) ==
    /\ ticks < MaxTicks
    /\ ticks' = ticks + 1
    /\ clock' = clock + seconds
    /\ step' = <<"tick", 0>>
    /\ UNCHANGED <<digest_file, disk_ok, database, task, local, result, runs, calls,
                   reply, db_schemas>>
    /\ UNCHANGED <<query_vars, server_vars>>

\* the digest document becomes unreadable and unwritable, or usable again
DiskFault ==
    /\ disk_ok' = ~disk_ok
    /\ step' = <<"disk", 0>>
    /\ UNCHANGED <<digest_file, clock, database, task, local, result, runs, calls,
                   ticks, reply, db_schemas>>
    /\ UNCHANGED <<query_vars, server_vars>>

\* the database becomes unreachable (every query raises), or reachable again
DatabaseFault ==
    /\ database' = [database EXCEPT !.up = ~@]
    /\ step' = <<"database", 0>>
    /\ UNCHANGED <<digest_file, clock, disk_ok, task, local, result, runs, calls,
                   ticks, reply, db_schemas>>
    /\ UNCHANGED <<query_vars, server_vars>>

(***************************************************************************)
(* src/sqlmcp/tools/usage_digest.py : the tools that read the digest.      *)
(***************************************************************************)
\* len(xs[:n]) for a list of the given length
slice_len(length, n) ==
    IF n >= 0 THEN (IF n < length THEN n ELSE length)
    ELSE (IF length + n > 0 THEN length + n ELSE 0)

\* the orders in which the elements of a set can be listed
orderings(S) ==
    {s \in [1..Cardinality(S) -> S] : \A i, j \in 1..Cardinality(S) : s[i] = s[j] => i = j}

\* the key sets that sorted(items by query_count, reverse=True)[:n] can
\* hold: ties are in the order of the dictionary, which a map does not have
top_keys(map, n) ==
    {S \in SUBSET DOMAIN map :
        /\ Cardinality(S) = slice_len(Cardinality(DOMAIN map), n)
        /\ \A a \in S : \A b \in DOMAIN map \ S : map[a].query_count >= map[b].query_count}

\* the lists that sorted(map.items(), key=query_count, reverse=True)[:n] can
\* be: the sort is stable and the items come in the order of the dictionary,
\* which a map does not have, so entries of equal count come in any order
sorted_items(map, n) ==
    {[i \in 1..slice_len(Len(keys), n) |-> [key |-> keys[i], info |-> map[keys[i]]]] :
        keys \in {s \in orderings(DOMAIN map) :
                    \A i, j \in 1..Len(s) :
                        i < j => map[s[i]].query_count >= map[s[j]].query_count}}

\* the entries of a map with more than min_query_count queries
filtered_above(map, min_query_count) ==
    [k \in {j \in DOMAIN map : map[j].query_count > min_query_count} |-> map[k]]

\* the entries of a map with at least min_query_count queries
filtered(map, min_query_count) ==
    [k \in {j \in DOMAIN map : map[j].query_count >= min_query_count} |-> map[k]]

restrict(map, keys) == [k \in keys |-> map[k]]

\* the steps of a tool that does not refresh the digest leave these alone
ReadOnly ==
    /\ calls < MaxCalls
    /\ calls' = calls + 1
    /\ UNCHANGED <<clock, disk_ok, database, task, local, result, runs, ticks>>
    /\ UNCHANGED <<query_vars, server_vars>>

\* get_usage_digest; each of the three dictionaries of the result is given as
\* the list of its items, in the order of the dictionary
GetUsageDigest(min_query_count, max_results) ==
    LET loaded == _load_usage_digest(digest_file, disk_ok, clock)
        digest == loaded.digest
        filtered_tables == filtered(digest.tables, min_query_count)
        filtered_fields == filtered(digest.fields, min_query_count)
        filtered_joins == filtered(digest.joins, min_query_count)
    IN  /\ digest_file' = loaded.file
        /\ db_schemas' = {}
        /\ step' = <<"get_usage_digest", 0>>
        /\ IF loaded.value # "digest"
           THEN reply' = failure("Failed to retrieve usage digest")
           ELSE \E sorted_tables \in sorted_items(filtered_tables, max_results),
                   sorted_fields \in sorted_items(filtered_fields, max_results),
                   sorted_joins \in sorted_items(filtered_joins, max_results) :
                    reply' = [last_updated |-> digest.last_updated,
                              total_queries_analyzed |-> digest.usage_count,
                              most_used_tables |-> sorted_tables,
                              most_used_fields |-> sorted_fields,
                              most_used_joins |-> sorted_joins,
                              metadata |-> [min_query_count |-> min_query_count,
                                            max_results |-> max_results]]
        /\ ReadOnly

\* schema and name of the table_name argument of a tool: split at the dot
\* when there is exactly one, otherwise the default schema and the first part
schema_name_of(table_name) ==
    LET parts == str_split_at(table_name, <<".">>)
    IN  IF Len(parts) = 2 THEN parts[1] ELSE <<"d", "b", "o">>

table_name_only_of(table_name) ==
    LET parts == str_split_at(table_name, <<".">>)
    IN  IF Len(parts) = 2 THEN parts[2] ELSE parts[1]

full_table_name_of(table_name) ==
    schema_name_of(table_name) \o <<".">> \o table_name_only_of(table_name)

\* the four spellings under which the table is looked up
table_variants(table_name) ==
    LET schema_name == schema_name_of(table_name)
        table_name_only == table_name_only_of(table_name)
    IN  <<full_table_name_of(table_name),
          table_name_only,
          <<"[">> \o schema_name \o <<"]", ".", "[">> \o table_name_only \o <<"]">>,
          <<"[">> \o table_name_only \o <<"]">>>>

\* any(variant.lower() == name.lower() for variant in table_variants)
is_variant(table_name, name) ==
    \E i \in 1..4 : str_lower(table_variants(table_name)[i]) = str_lower(name)

\* the first variant that is a key of the digest's tables, 0 when none is
variant_in_digest(digest, table_name) ==
    LET hits == {i \in 1..4 : table_variants(table_name)[i] \in DOMAIN digest.tables}
    IN  IF hits = {} THEN 0 ELSE CHOOSE i \in hits : \A j \in hits : i <= j

related_fields_of(digest, table_name) ==
    restrict(digest.fields,
             {f \in DOMAIN digest.fields :
                 /\ digest.fields[f].table # None
                 /\ digest.fields[f].table # <<>>
                 /\ is_variant(table_name, digest.fields[f].table)})

related_joins_of(digest, table_name) ==
    restrict(digest.joins,
             {j \in DOMAIN digest.joins :
                 \/ is_variant(table_name, digest.joins[j].table1)
                 \/ is_variant(table_name, digest.joins[j].table2)})

\* record.get(field, default)
get_or(record, field, default) ==
    IF field \in DOMAIN record THEN record[field] ELSE default

\* lines 704-739: the result for a table_info.  A ratio is the pair
\* <<numerator, denominator>> of the quotient that the source rounds.
importance_result(table_name, table_info, related_fields, related_joins, total_queries) ==
    [table_name |-> full_table_name_of(table_name),
     importance_metrics |->
         [query_count |-> table_info.query_count,
          total_queries_analyzed |-> total_queries,
          usage_percentage |-> <<table_info.query_count * 100, total_queries>>,
          importance_score |->
              IF table_info.query_count * 100 < 10 * total_queries
              THEN <<table_info.query_count * 100, total_queries>>
              ELSE <<10, 1>>,
          row_count |-> get_or(table_info, "row_count", 0),
          column_count |-> get_or(table_info, "column_count", 0),
          first_seen |-> table_info.first_seen,
          last_seen |-> table_info.last_seen],
     most_queried_fields |->
         restrict(related_fields, CHOOSE S \in top_keys(related_fields, 10) : TRUE),
     common_joins |->
         restrict(related_joins, CHOOSE S \in top_keys(related_joins, 5) : TRUE),
     description |-> IF table_info.query_count = 0 THEN "not queried" ELSE "described"]

\* lines 677-685: the table_info made from the row of the catalog
basic_table_info(schema_name, table_name_only, row) ==
    [schema |-> schema_name, name |-> table_name_only, query_count |-> 0,
     row_count |-> row.row_count, column_count |-> row.column_count,
     first_seen |-> None, last_seen |-> None]

\* the variant of the name that the loaded digest has, or 0
variant_loaded(value, digest, table_name) ==
    IF value = "digest" THEN variant_in_digest(digest, table_name) ELSE 0

\* lines 620-748: what get_table_importance returns; v is the variant of
\* the name found in the digest (0: none), validation_result the rows of
\* the catalog for the table
table_importance(table_name, value, digest, v, validation_result, up) ==
    IF value = "raised" THEN failure("Failed to get table importance")
    ELSE IF v = 0 /\ ~up THEN failure("Failed to get table importance")
    ELSE IF v = 0 /\ validation_result = {}
         THEN [error |-> "Table not found",
               details |-> "The specified table does not exist in the database or usage digest"]
    ELSE IF value = "report" THEN failure("Failed to get table importance")
    ELSE IF digest.usage_count = 0 THEN failure("Failed to get table importance")
    ELSE importance_result(
             table_name,
             IF v # 0 THEN digest.tables[table_variants(table_name)[v]]
             ELSE basic_table_info(schema_name_of(table_name), table_name_only_of(table_name),
                                   CHOOSE t \in validation_result : TRUE),
             related_fields_of(digest, table_name),
             related_joins_of(digest, table_name),
             digest.usage_count)

\* get_table_importance
GetTableImportance(table_name) ==
    LET loaded == _load_usage_digest(digest_file, disk_ok, clock)
    IN  /\ digest_file' = loaded.file
        /\ step' = <<"get_table_importance", 0>>
        /\ db_schemas' =
               IF loaded.value # "raised"
                  /\ variant_loaded(loaded.value, loaded.digest, table_name) = 0
               THEN {schema_name_of(table_name)} ELSE {}
        /\ reply' = table_importance(
               table_name, loaded.value, loaded.digest,
               variant_loaded(loaded.value, loaded.digest, table_name),
               table_info_result(database.tables, schema_name_of(table_name),
                                 table_name_only_of(table_name)),
               database.up)
        /\ ReadOnly

\* the rows of INFORMATION_SCHEMA.TABLES for (schema, name)
information_schema_tables(tables, schema, name) ==
    {t \in tables : /\ str_upper(t.schema) = str_upper(schema)
                    /\ str_upper(t.name) = str_upper(name)}

\* sorted(joins, key=query_count, reverse=True): stable, so joins with equal
\* counts keep their order
RECURSIVE sorted_by_count(_)
sorted_by_count(joins) ==
    IF joins = <<>> THEN <<>>
    ELSE LET rest == sorted_by_count(SubSeq(joins, 1, Len(joins) - 1))
             x == joins[Len(joins)]
             ahead == {i \in 1..Len(rest) : rest[i].query_count >= x.query_count}
             n == IF ahead = {} THEN 0 ELSE CHOOSE i \in ahead : \A j \in ahead : j <= i
         IN  SubSeq(rest, 1, n) \o <<x>> \o SubSeq(rest, n + 1, Len(rest))

\* the candidate of one join of the digest, in a list of zero or one
usage_join_of(table_name, join_info) ==
    IF is_variant(table_name, join_info.table1)
    THEN <<[primary_table |-> join_info.table1, secondary_table |-> join_info.table2,
            join_condition |-> join_info.join_fields,
            query_count |-> join_info.query_count, source |-> "usage_history"]>>
    ELSE IF is_variant(table_name, join_info.table2)
    THEN <<[primary_table |-> join_info.table2, secondary_table |-> join_info.table1,
            join_condition |-> join_info.join_fields,
            query_count |-> join_info.query_count, source |-> "usage_history"]>>
    ELSE <<>>

\* the candidates of the joins of the digest, taken in the given key order
RECURSIVE usage_joins_of(_, _, _)
usage_joins_of(table_name, joins, keys) ==
    IF keys = <<>> THEN <<>>
    ELSE usage_join_of(table_name, joins[keys[1]])
             \o usage_joins_of(table_name, joins, Tail(keys))

\* the candidate of one foreign key row, in a list of zero or one
fk_join_of(table_name, fk) ==
    LET full_table_name == full_table_name_of(table_name)
        pk_full_table == fk.pk_schema \o <<".">> \o fk.pk_table
        fk_full_table == fk.fk_schema \o <<".">> \o fk.fk_table
    IN  IF str_lower(full_table_name) = str_lower(pk_full_table)
        THEN <<[primary_table |-> pk_full_table, secondary_table |-> fk_full_table,
                join_condition |-> pk_full_table \o <<".">> \o fk.pk_column \o <<" ", "=", " ">>
                                       \o fk_full_table \o <<".">> \o fk.fk_column,
                query_count |-> 0, source |-> "foreign_key"]>>
        ELSE IF str_lower(full_table_name) = str_lower(fk_full_table)
        THEN <<[primary_table |-> fk_full_table, secondary_table |-> pk_full_table,
                join_condition |-> fk_full_table \o <<".">> \o fk.fk_column \o <<" ", "=", " ">>
                                       \o pk_full_table \o <<".">> \o fk.pk_column,
                query_count |-> 0, source |-> "foreign_key"]>>
        ELSE <<>>

RECURSIVE fk_joins_of(_, _)
fk_joins_of(table_name, fk_result) ==
    IF fk_result = <<>> THEN <<>>
    ELSE fk_join_of(table_name, fk_result[1]) \o fk_joins_of(table_name, Tail(fk_result))

\* the rows of the foreign key query for the table
fk_rows(foreign_keys, table_name) ==
    LET schema_name == schema_name_of(table_name)
        table_name_only == table_name_only_of(table_name)
    IN  {fk \in foreign_keys :
            \/ /\ str_upper(fk.pk_schema) = str_upper(schema_name)
               /\ str_upper(fk.pk_table) = str_upper(table_name_only)
            \/ /\ str_upper(fk.fk_schema) = str_upper(schema_name)
               /\ str_upper(fk.fk_table) = str_upper(table_name_only)}

same_pair(a, b) ==
    /\ str_lower(a.primary_table) = str_lower(b.primary_table)
    /\ str_lower(a.secondary_table) = str_lower(b.secondary_table)

\* a foreign key candidate takes the count of the first usage candidate
\* with the same two tables
with_usage_count(fk_join, usage_joins) ==
    LET hits == {i \in 1..Len(usage_joins) : same_pair(fk_join, usage_joins[i])}
    IN  IF hits = {} THEN fk_join
        ELSE [fk_join EXCEPT !.query_count =
                 usage_joins[CHOOSE i \in hits : \A j \in hits : i <= j].query_count]

\* usage_joins + fk_joins after the counts of the foreign key candidates
\* have been updated
all_joins_of(usage_joins, fk_joins) ==
    usage_joins \o [i \in 1..Len(fk_joins) |-> with_usage_count(fk_joins[i], usage_joins)]

\* schema and table of a candidate's table: brackets removed, split at dots
ref_schema_of(table) ==
    LET table_parts == str_split_at(no_brackets(table), <<".">>)
    IN  IF Len(table_parts) > 1 THEN table_parts[1] ELSE <<"d", "b", "o">>

ref_table_of(table) ==
    LET table_parts == str_split_at(no_brackets(table), <<".">>)
    IN  IF Len(table_parts) > 1 THEN table_parts[2] ELSE table_parts[1]

\* the lower-cased column names the columns query returns for a table
column_names(tables, table) ==
    LET rows == information_schema_tables(tables, ref_schema_of(table), ref_table_of(table))
    IN  IF rows = {} THEN <<>>
        ELSE LET columns == (CHOOSE t \in rows : TRUE).columns
             IN  [i \in 1..Len(columns) |-> str_lower(columns[i])]

\* line 1018: one column name ends with "_" and the other name
pattern_match(pri_field, sec_field) ==
    \/ str_endswith(pri_field, <<"_">> \o sec_field)
    \/ str_endswith(sec_field, <<"_">> \o pri_field)

\* the first column of the secondary table that matches the pattern, or 0
first_match(pri_field, sec_field_names) ==
    LET js == {j \in 1..Len(sec_field_names) : pattern_match(pri_field, sec_field_names[j])}
    IN  IF js = {} THEN 0 ELSE CHOOSE a \in js : \A b \in js : a <= b

\* lines 1008-1024: the join condition for the lower-cased column names of
\* the two tables: a name the two tables share, else the last pair that
\* matches the pattern (the inner loop breaks at the first match, the outer
\* loop goes on), else the guess primary.id = secondary.<primary>_id
condition_of(pri_field_names, sec_field_names, primary_table, secondary_table, pri_table) ==
    LET exact == {i \in 1..Len(pri_field_names) : pri_field_names[i] \in Range(sec_field_names)}
        matched == {i \in 1..Len(pri_field_names) :
                       first_match(pri_field_names[i], sec_field_names) # 0}
        first_exact == IF exact = {} THEN 0 ELSE CHOOSE i \in exact : \A j \in exact : i <= j
        last_matched == IF matched = {} THEN 0
                        ELSE CHOOSE a \in matched : \A b \in matched : b <= a
    IN  IF exact # {}
        THEN primary_table \o <<".">> \o pri_field_names[first_exact] \o <<" ", "=", " ">>
                 \o secondary_table \o <<".">> \o pri_field_names[first_exact]
        ELSE IF matched # {}
        THEN primary_table \o <<".">> \o pri_field_names[last_matched] \o <<" ", "=", " ">>
                 \o secondary_table \o <<".">>
                 \o sec_field_names[first_match(pri_field_names[last_matched], sec_field_names)]
        ELSE primary_table \o <<".", "i", "d", " ", "=", " ">> \o secondary_table \o <<".">> \o pri_table \o <<"_", "i", "d">>

\* the join condition inferred from the columns that the database reports
\* for the two tables
inferred_condition(tables, primary_table, secondary_table) ==
    condition_of(column_names(tables, primary_table), column_names(tables, secondary_table),
                 primary_table, secondary_table, ref_table_of(primary_table))

\* one entry of join_suggestions
suggestion_of(tables, join) ==
    [primary_table |-> join.primary_table,
     secondary_table |-> join.secondary_table,
     join_condition |->
         IF join.join_condition \in {None, <<>>} /\ join.source = "usage_history"
         THEN inferred_condition(tables, join.primary_table, join.secondary_table)
         ELSE join.join_condition,
     query_count |-> join.query_count,
     source |-> join.source]

\* the schemas of the column queries made for one suggestion
suggestion_schemas(join) ==
    {ref_schema_of(join.secondary_table)} \cup
    (IF join.join_condition \in {None, <<>>} /\ join.source = "usage_history"
     THEN {ref_schema_of(join.primary_table)} ELSE {})

\* suggest_important_joins
SuggestImportantJoins(table_name, max_suggestions) ==
    LET schema_name == schema_name_of(table_name)
        table_name_only == table_name_only_of(table_name)
        validation_result ==
            information_schema_tables(database.tables, schema_name, table_name_only)
        loaded == _load_usage_digest(digest_file, disk_ok, clock)
        digest == loaded.digest
        fks == fk_rows(database.foreign_keys, table_name)
        reaches_load == database.up /\ validation_result # {}
    IN  /\ step' = <<"suggest_important_joins", 0>>
        /\ digest_file' = IF reaches_load THEN loaded.file ELSE digest_file
        /\ IF ~database.up
           THEN /\ reply' = failure("Failed to suggest important joins")
                /\ db_schemas' = {schema_name}
           ELSE IF validation_result = {}
           THEN /\ reply' = [error |-> "Table not found",
                             details |-> "The specified table does not exist in the database"]
                /\ db_schemas' = {schema_name}
           ELSE IF loaded.value # "digest"
           THEN /\ reply' = failure("Failed to suggest important joins")
                /\ db_schemas' = {schema_name}
           ELSE \E keys \in orderings(DOMAIN digest.joins), fk_result \in orderings(fks) :
                   LET usage_joins == usage_joins_of(table_name, digest.joins, keys)
                       fk_joins == fk_joins_of(table_name, fk_result)
                       all_joins == all_joins_of(usage_joins, fk_joins)
                       sorted_joins == sorted_by_count(all_joins)
                       shown == SubSeq(sorted_joins, 1, slice_len(Len(sorted_joins), max_suggestions))
                   IN  /\ reply' =
                             [table_name |-> full_table_name_of(table_name),
                              join_suggestions |->
                                  [i \in 1..Len(shown) |-> suggestion_of(database.tables, shown[i])],
                              metadata |->
                                  [max_suggestions |-> max_suggestions,
                                   total_suggestions_found |-> Len(all_joins),
                                   usage_based_suggestions |-> Len(usage_joins),
                                   foreign_key_suggestions |-> Len(fk_joins)]]
                       /\ db_schemas' = {schema_name} \cup
                              UNION {suggestion_schemas(shown[i]) : i \in 1..Len(shown)}
        /\ ReadOnly

\* the path of the digest document, and a path that is another file
DigestPath == "usage_digest/usage_digest.json"

OtherPath == "reports/usage.out"

\* lines 1108-1143: the document that export_usage_report builds from the
\* digest: tables, fields and joins are lists of rows, one per entry, each
\* row holding the key and the listed fields of the record (a default
\* where the record has none); the rows come in the order of the dictionary
export_data_of(digest, now) ==
    LET table_names == set_to_seq(DOMAIN digest.tables)
        field_names == set_to_seq(DOMAIN digest.fields)
        join_keys == set_to_seq(DOMAIN digest.joins)
    IN  [metadata |-> [export_date |-> now,
                       last_updated |-> digest.last_updated,
                       total_queries_analyzed |-> digest.usage_count],
         tables |-> [i \in DOMAIN table_names |->
                        LET table_info == digest.tables[table_names[i]]
                        IN  [table_name |-> table_names[i],
                             schema |-> get_or(table_info, "schema", <<"d", "b", "o">>),
                             name |-> get_or(table_info, "name", <<>>),
                             query_count |-> get_or(table_info, "query_count", 0),
                             row_count |-> get_or(table_info, "row_count", 0),
                             column_count |-> get_or(table_info, "column_count", 0),
                             first_seen |-> get_or(table_info, "first_seen", <<>>),
                             last_seen |-> get_or(table_info, "last_seen", <<>>)]],
         fields |-> [i \in DOMAIN field_names |->
                        LET field_info == digest.fields[field_names[i]]
                        IN  [field_name |-> field_names[i],
                             table |-> get_or(field_info, "table", <<>>),
                             name |-> get_or(field_info, "name", <<>>),
                             query_count |-> get_or(field_info, "query_count", 0),
                             first_seen |-> get_or(field_info, "first_seen", <<>>),
                             last_seen |-> get_or(field_info, "last_seen", <<>>)]],
         joins |-> [i \in DOMAIN join_keys |->
                        LET join_info == digest.joins[join_keys[i]]
                        IN  [join_key |-> join_keys[i],
                             table1 |-> get_or(join_info, "table1", <<>>),
                             table2 |-> get_or(join_info, "table2", <<>>),
                             join_fields |-> get_or(join_info, "join_fields", <<>>),
                             query_count |-> get_or(join_info, "query_count", 0),
                             first_seen |-> get_or(join_info, "first_seen", <<>>),
                             last_seen |-> get_or(join_info, "last_seen", <<>>)]]]

\* export_usage_report: the digest is loaded and written in the export
\* format to output_path (the default path when output_path is None); the
\* CSV export writes three files named after output_path
ExportUsageReport(export_format, output_path) ==
    LET loaded == _load_usage_digest(digest_file, disk_ok, clock)
        digest == loaded.digest
        lower_format == str_lower(export_format)
        written == IF lower_format = <<"c", "s", "v">> THEN "csv files"
                   ELSE IF output_path = "None" THEN "default path"
                   ELSE output_path
    IN  /\ step' = <<"export_usage_report", 0>>
        /\ db_schemas' = {}
        /\ IF loaded.value # "digest"
           THEN /\ reply' = failure("Failed to export usage report")
                /\ digest_file' = loaded.file
           ELSE IF lower_format \notin {<<"j", "s", "o", "n">>, <<"c", "s", "v">>, <<"x", "m", "l">>}
           THEN /\ reply' = [error |-> "Unsupported export format",
                             details |-> "Supported formats are: csv, json, xml"]
                /\ digest_file' = loaded.file
           ELSE IF written = DigestPath /\ ~disk_ok
           THEN /\ reply' = failure("Failed to export usage report")
                /\ digest_file' = loaded.file
           ELSE /\ reply' = [status |-> "success", export_format |-> export_format,
                             export_data |->
                                 [tables_count |-> Cardinality(DOMAIN digest.tables),
                                  fields_count |-> Cardinality(DOMAIN digest.fields),
                                  joins_count |-> Cardinality(DOMAIN digest.joins)]]
                /\ digest_file' =
                       IF written # DigestPath THEN loaded.file
                       ELSE IF lower_format = <<"j", "s", "o", "n">>
                            THEN [kind |-> "report", doc |-> export_data_of(digest, clock)]
                            ELSE [kind |-> "unreadable", doc |-> digest]
        /\ ReadOnly

(***************************************************************************)
(* sql_mcp_server.py : the tools that take a schema or a table name.       *)
(***************************************************************************)
\* the allowed schemas when the environment configures none
ALLOWED_SCHEMAS == {<<"d", "b", "o">>}

\* the value of a tool that raised ValueError
raised(what) == [raised |-> "ValueError", message |-> what]

\* list_tables
ListTables(schema, include_views) ==
    /\ step' = <<"list_tables", 0>>
    /\ IF schema # None /\ schema # <<>>
       THEN IF schema \notin ALLOWED_SCHEMAS
            THEN /\ reply' = raised("Schema is not in the allowed list")
                 /\ db_schemas' = {}
            ELSE /\ db_schemas' = {schema}
                 /\ reply' =
                       IF ~database.up THEN raised("Failed to list tables")
                       ELSE [tables |-> {<<t.schema, t.name>> : t \in
                                {u \in database.tables :
                                    /\ str_upper(u.schema) = str_upper(schema)
                                    /\ (include_views \/ u.table_type = "BASE TABLE")}}]
       ELSE IF ALLOWED_SCHEMAS # {}
            THEN /\ db_schemas' = ALLOWED_SCHEMAS
                 /\ reply' =
                       IF ~database.up THEN raised("Failed to list tables")
                       ELSE [tables |-> {<<t.schema, t.name>> : t \in
                                {u \in database.tables :
                                    /\ \E a \in ALLOWED_SCHEMAS : str_upper(u.schema) = str_upper(a)
                                    /\ (include_views \/ u.table_type = "BASE TABLE")}}]
            ELSE /\ reply' = raised("No allowed schemas configured.")
                 /\ db_schemas' = {}
    /\ UNCHANGED digest_file
    /\ ReadOnly

\* the foreign keys whose referencing table is (schema, name)
foreign_keys_of(foreign_keys, schema, name) ==
    {fk \in foreign_keys : /\ str_upper(fk.fk_schema) = str_upper(schema)
                           /\ str_upper(fk.fk_table) = str_upper(name)}

\* get_table_schema
GetTableSchema(table_name) ==
    LET schema_name == schema_name_of(table_name)
        table_name_only == table_name_only_of(table_name)
        validation_result ==
            information_schema_tables(database.tables, schema_name, table_name_only)
    IN  /\ step' = <<"get_table_schema", 0>>
        /\ IF table_name = <<>>
           THEN /\ reply' = raised("table_name parameter is required.")
                /\ db_schemas' = {}
           ELSE IF schema_name \notin ALLOWED_SCHEMAS
           THEN /\ reply' = raised("Schema is not allowed.")
                /\ db_schemas' = {}
           ELSE /\ db_schemas' = {schema_name}
                /\ reply' =
                      IF ~database.up \/ validation_result = {}
                      THEN raised("Failed to get table schema")
                      ELSE [table_name |-> schema_name \o <<".">> \o table_name_only,
                            columns |-> (CHOOSE t \in validation_result : TRUE).columns,
                            foreign_keys |->
                                foreign_keys_of(database.foreign_keys, schema_name,
                                                table_name_only)]
        /\ UNCHANGED digest_file
        /\ ReadOnly

\* find_foreign_keys
FindForeignKeys(table_name) ==
    LET schema_name == schema_name_of(table_name)
        table_name_only == table_name_only_of(table_name)
    IN  /\ step' = <<"find_foreign_keys", 0>>
        /\ IF schema_name \notin ALLOWED_SCHEMAS
           THEN /\ reply' = raised("Schema is not allowed.")
                /\ db_schemas' = {}
           ELSE /\ db_schemas' = {schema_name}
                /\ reply' =
                      IF ~database.up THEN raised("Failed to find foreign keys")
                      ELSE [foreign_keys |->
                               foreign_keys_of(database.foreign_keys, schema_name,
                                               table_name_only)]
        /\ UNCHANGED digest_file
        /\ ReadOnly

(***************************************************************************)
(* Inputs of the digest tools and their specifications.                    *)
(***************************************************************************)
\* the query of the end-to-end scenario, observed with a count
T1Query == <<"S", "E", "L", "E", "C", "T", " ", "*", " ", "F", "R", "O", "M", " ", "d", "b", "o", ".", "T", "1">>

Observed(query_text, count) ==
    <<[query_text |-> query_text, execution_count |-> count]>>

\* a batch whose only query is too short to be analysed
ShortBatch == Observed(<<"S", "E", "L", "E", "C", "T", " ", "1">>, 1)

\* a batch of two queries, one with a join
JoinBatch ==
    Observed(<<"S", "E", "L", "E", "C", "T", " ", "a", "\n", "F", "R", "O", "M", " ", "d", "b", "o", ".", "T", "1", "\n", "J", "O", "I", "N", " ", "d", "b", "o", ".", "T", "2", " ", "O", "N", " ", "T", "1", ".", "i", "d", " ", "=", " ", "T", "2", ".", "t", "1", "_", "i", "d">>, 1)
        \o Observed(<<"S", "E", "L", "E", "C", "T", " ", "n", "a", "m", "e", "\n", "F", "R", "O", "M", " ", "h", "r", ".", "P", "a", "y", "\n", "W", "H", "E", "R", "E", " ", "P", "a", "y", ".", "t", "1", "_", "i", "d", " ", "=", " ", "1">>, 1)

\* the rows the query statistics can hold
QueryStats == {<<>>, Observed(T1Query, 3), Observed(T1Query, 2), ShortBatch}

\* how far the clock is advanced at a time
TickSeconds == {1, FRESHNESS_SECONDS - 1}

\* the digest that a refresh of the batch at time 0 leaves, from no digest
DigestOf(query_stats) ==
    _merge_digests(empty_digest(0), build_new_digest(query_stats, Database.tables, 0))

\* the update_usage_digest call of handler h and its continuations
Update(h) ==
    \/ \E force_refresh \in BOOLEAN : UpdateUsageDigest(h, force_refresh)
    \/ RefreshTableFieldDigest(h)
    \/ \E query_stats \in QueryStats : UpdateQueryStats(h, query_stats)
    \/ UpdateTableInfo(h)

TableNames == {<<"d", "b", "o", ".", "T", "1">>, <<"D", "B", "O", ".", "T", "1">>, <<"T", "2">>, <<"h", "r", ".", "P", "a", "y">>, <<"d", "b", "o", ".", "T", "9">>}

\* the tools of usage_digest.py that only read the digest
ReadDigest ==
    \/ \E min_query_count \in {1, 4} : GetUsageDigest(min_query_count, 50)
    \/ \E table_name \in {<<"D", "B", "O", ".", "T", "1">>, <<"d", "b", "o", ".", "T", "9">>} : GetTableImportance(table_name)
    \/ \E table_name \in {<<"D", "B", "O", ".", "T", "1">>, <<"d", "b", "o", ".", "T", "9">>} : SuggestImportantJoins(table_name, 5)
    \/ \E export_format \in {<<"j", "s", "o", "n">>, <<"C", "S", "V">>, <<"y", "a", "m", "l">>},
          output_path \in {"None", DigestPath} :
           ExportUsageReport(export_format, output_path)

\* the digest tools under faults of the disk and of the database
InitDigest ==
    /\ query = <<>> /\ limit = 0 /\ pc = "digest" /\ Idle /\ NoDigests
    /\ digest_file \in {NoFile, DigestFile(DigestOf(Observed(T1Query, 3)))}
    /\ disk_ok = TRUE
    /\ clock = 0
    /\ database = Database
    /\ NoCall
    /\ NoServer

NextDigest ==
    \/ Update(1)
    \/ ReadDigest
    \/ DiskFault
    \/ DatabaseFault

SpecDigest == InitDigest /\ [][NextDigest]_vars

\* two calls of update_usage_digest under way at once, no fault
InitConcurrent ==
    /\ query = <<>> /\ limit = 0 /\ pc = "digest" /\ Idle /\ NoDigests
    /\ digest_file = DigestFile(DigestOf(Observed(T1Query, 3)))
    /\ disk_ok = TRUE
    /\ clock = 0
    /\ database = Database
    /\ NoCall
    /\ NoServer

NextConcurrent ==
    \/ \E h \in Handlers : Update(h)
    \/ \E seconds \in TickSeconds : Tick(seconds)

SpecConcurrent == InitConcurrent /\ [][NextConcurrent]_vars

\* one call of update_usage_digest after the other, no fault
InitSequential ==
    /\ query = <<>> /\ limit = 0 /\ pc = "digest" /\ Idle /\ NoDigests
    /\ NoService
    /\ NoServer

NextSequential ==
    \/ Update(1)
    \/ \E seconds \in TickSeconds : Tick(seconds)

SpecSequential == InitSequential /\ [][NextSequential]_vars

\* the tools that take a schema or a table name, for each digest document
InitTables ==
    /\ query = <<>> /\ limit = 0 /\ pc = "digest" /\ Idle /\ NoDigests
    /\ digest_file \in {NoFile, DigestFile(empty_digest(0)), DigestFile(DigestOf(ShortBatch)),
                        DigestFile(DigestOf(Observed(T1Query, 3))),
                        DigestFile(DigestOf(JoinBatch))}
    /\ disk_ok = TRUE
    /\ clock = 0
    /\ database = Database
    /\ NoCall
    /\ NoServer

NextTables ==
    \/ \E schema \in {None, <<"d", "b", "o">>, <<"h", "r">>}, include_views \in BOOLEAN :
           ListTables(schema, include_views)
    \/ \E table_name \in TableNames : GetTableSchema(table_name)
    \/ \E table_name \in TableNames : FindForeignKeys(table_name)
    \/ \E table_name \in TableNames : GetTableImportance(table_name)
    \/ \E table_name \in TableNames, max_suggestions \in {1, 5} :
           SuggestImportantJoins(table_name, max_suggestions)
    \/ DatabaseFault

SpecTables == InitTables /\ [][NextTables]_vars
(***************************************************************************)
(* get_usage_digest over digests with entries of equal and of different    *)
(* counts, the document readable or not.                                   *)
(***************************************************************************)
\* a batch that leaves tables, fields and joins of counts 1, 3 and 4
MixedCounts == Observed(T1Query, 3) \o JoinBatch

InitUsage ==
    /\ query = <<>> /\ limit = 0 /\ pc = "digest" /\ Idle /\ NoDigests
    /\ digest_file \in {NoFile, DigestFile(DigestOf(Observed(T1Query, 3))),
                        DigestFile(DigestOf(MixedCounts))}
    /\ disk_ok = TRUE
    /\ clock = 0
    /\ database = Database
    /\ NoCall
    /\ NoServer

NextUsage ==
    \/ \E min_query_count \in {1, 2, 4, 5}, max_results \in {0, 1, 2, 50} :
           GetUsageDigest(min_query_count, max_results)
    \/ DiskFault

SpecUsage == InitUsage /\ [][NextUsage]_vars
(***************************************************************************)
(* The three extraction functions applied to one query text, in the order  *)
(* of lines 262-268 of update_usage_digest.                                *)
(***************************************************************************)
\* the query texts of the two documented examples
CustomersOrders == <<"S", "E", "L", "E", "C", "T", " ", "a", " ", "F", "R", "O", "M", " ", "d", "b", "o", ".", "C", "u", "s", "t", "o", "m", "e", "r", "s", " ", "c", " ", "J", "O", "I", "N", " ", "d", "b", "o", ".", "O", "r", "d", "e", "r", "s", " ", "o", " ", "O", "N", " ", "c", ".", "i", "d", " ", "=", " ", "o", ".", "c", "u", "s", "t", "_", "i", "d">>

AliasAggregateWhere == <<"S", "E", "L", "E", "C", "T", " ", "a", ",", " ", "b", " ", "A", "S", " ", "b", "b", ",", " ", "C", "O", "U", "N", "T", "(", "*", ")", " ", "F", "R", "O", "M", " ", "t", " ", "W", "H", "E", "R", "E", " ", "x", ".", "y", " ", "=", " ", "5">>

SelectLists == {<<"S", "E", "L", "E", "C", "T", " ", "a">>, <<"S", "E", "L", "E", "C", "T", " ", "a", ",", " ", "b", " ", "A", "S", " ", "b", "b", ",", " ", "C", "O", "U", "N", "T", "(", "*", ")">>}

FromClauses == {<<"F", "R", "O", "M", " ", "A">>, <<"F", "R", "O", "M", " ", "t">>, <<"F", "R", "O", "M", " ", "d", "b", "o", ".", "C", "u", "s", "t", "o", "m", "e", "r", "s", " ", "c">>}

JoinedTables == {<<"B">>, <<"d", "b", "o", ".", "O", "r", "d", "e", "r", "s", " ", "o", " ", "O", "N", " ", "c", ".", "i", "d", " ", "=", " ", "o", ".", "c", "u", "s", "t", "_", "i", "d">>}

SecondJoins == {<<>>, <<"J", "O", "I", "N", " ", "C">>, <<"J", "O", "I", "N", " ", "C", " ", "O", "N", " ", "B", ".", "y", " ", "=", " ", "C", ".", "y">>}

WhereClauses == {<<>>, <<"W", "H", "E", "R", "E", " ", "x", ".", "y", " ", "=", " ", "5">>}

\* the clauses that are not empty, joined by the separator
clauses_joined(clauses, sep) ==
    str_join(SelectSeq(clauses, LAMBDA c : c # <<>>), sep)

\* a query of one FROM table, one join of the given type, and more clauses
join_query(select_list, from_clause, join_type, joined, second_join, where_clause, sep) ==
    clauses_joined(<<select_list, from_clause, join_type \o <<" ">> \o joined,
                     second_join, where_clause>>, sep)

\* query texts as written, and as update_usage_digest hands them over
\* (upper-cased at line 255)
QueryTexts ==
    LET written ==
            {clauses_joined(<<s, f, w>>, sep) :
                s \in SelectLists, f \in FromClauses, w \in WhereClauses,
                sep \in {<<" ">>, <<"\n">>}}
            \cup
            {join_query(s, f, join_types[t], j, j2, w, sep) :
                s \in SelectLists, f \in FromClauses, t \in DOMAIN join_types,
                j \in JoinedTables, j2 \in SecondJoins, w \in WhereClauses,
                sep \in {<<" ">>, <<"\n">>}}
    IN  written \cup {str_upper(q) : q \in written}

ExtractTables ==
    /\ pc = "query_text"
    /\ pc' = "tables"
    /\ reply' = [tables |-> _extract_tables_from_query(query)]
    /\ UNCHANGED <<query, limit, verdict, outcome, db_query,
                   old_digest, new_digest, merged_digest>>
    /\ UNCHANGED <<digest_file, disk_ok, clock, database, task, local, result,
                   db_schemas, step, runs, calls, ticks>>
    /\ UNCHANGED server_vars

ExtractFields ==
    /\ pc = "tables"
    /\ pc' = "fields"
    /\ reply' = [tables |-> reply.tables, fields |-> _extract_fields_from_query(query)]
    /\ UNCHANGED <<query, limit, verdict, outcome, db_query,
                   old_digest, new_digest, merged_digest>>
    /\ UNCHANGED <<digest_file, disk_ok, clock, database, task, local, result,
                   db_schemas, step, runs, calls, ticks>>
    /\ UNCHANGED server_vars

ExtractJoins ==
    /\ pc = "fields"
    /\ pc' = "joins"
    /\ reply' = [tables |-> reply.tables, fields |-> reply.fields,
                 joins |-> _extract_joins_from_query(query)]
    /\ UNCHANGED <<query, limit, verdict, outcome, db_query,
                   old_digest, new_digest, merged_digest>>
    /\ UNCHANGED <<digest_file, disk_ok, clock, database, task, local, result,
                   db_schemas, step, runs, calls, ticks>>
    /\ UNCHANGED server_vars

InitExtract ==
    /\ query \in QueryTexts
    /\ limit = 0 /\ pc = "query_text" /\ Idle /\ NoDigests
    /\ NoService
    /\ NoServer

NextExtract ==
    \/ ExtractTables
    \/ ExtractFields
    \/ ExtractJoins

SpecExtract == InitExtract /\ [][NextExtract]_vars
(***************************************************************************)
(* src/sqlmcp/tools_loader.py : register_all_tools.  Each tool group is    *)
(* imported and registered inside a try of its own; whether the import or  *)
(* the registration raises is for the environment to decide.               *)
(***************************************************************************)
\* the tool groups, in the order of lines 42-181
tool_groups ==
    <<"analyze", "metadata", "schema_extended", "simplified_adapter",
      "basic_advanced", "digest">>

\* the modules of basic_advanced that lines 136-162 register one by one
\* when the registration of the group has failed
individual_tools ==
    {"advanced_inspector", "query_builder", "data_summary", "export_tools"}

\* the try body of the next group runs to its end
RegisterTools ==
    /\ returned = "None"
    /\ next_group <= Len(tool_groups)
    /\ registered' = registered \cup {tool_groups[next_group]}
    /\ next_group' = next_group + 1
    /\ UNCHANGED <<success, failed, returned>>
    /\ UNCHANGED <<query_vars, digest_vars, conn_vars, pool_vars>>

\* the try body of the next group raises: the except clause logs it and,
\* for every group but the last (lines 179-181), clears success; after
\* basic_advanced each of its modules is tried, and each may fail in turn
RegistrationFails ==
    /\ returned = "None"
    /\ next_group <= Len(tool_groups)
    /\ failed' = failed \cup {tool_groups[next_group]}
    /\ success' = IF tool_groups[next_group] = "digest" THEN success ELSE FALSE
    /\ IF tool_groups[next_group] = "basic_advanced"
       THEN \E individually \in SUBSET individual_tools :
               registered' = registered \cup individually
       ELSE registered' = registered
    /\ next_group' = next_group + 1
    /\ UNCHANGED returned
    /\ UNCHANGED <<query_vars, digest_vars, conn_vars, pool_vars>>

\* line 184: return success
ReturnSuccess ==
    /\ returned = "None"
    /\ next_group > Len(tool_groups)
    /\ returned' = IF success THEN "True" ELSE "False"
    /\ UNCHANGED <<success, registered, failed, next_group>>
    /\ UNCHANGED <<query_vars, digest_vars, conn_vars, pool_vars>>

InitLoader == NoTool /\ NoServer

NextLoader ==
    \/ RegisterTools
    \/ RegistrationFails
    \/ ReturnSuccess

SpecLoader == InitLoader /\ [][NextLoader]_vars
(***************************************************************************)
(* sql_mcp_server.py : _get_db_connection_blocking and the module-level    *)
(* _conn.  A connection is the number of the pyodbc.connect call that      *)
(* opened it; whether a connection still answers and which connection      *)
(* strings the server accepts are for the environment to decide.           *)
(***************************************************************************)
\* the standard connection string alone
standard_format_only == <<"standard">>

\* the connection strings tried one after the other (line 103)
connect_formats == <<"standard", "alternative">>

\* the place in the list of the first format that connects, 0 when none does
first_connecting(formats, accepted) ==
    IF \E i \in DOMAIN formats : formats[i] \in accepted
    THEN CHOOSE i \in DOMAIN formats :
            /\ formats[i] \in accepted
            /\ \A j \in DOMAIN formats : formats[j] \in accepted => i <= j
    ELSE 0

\* _get_db_connection_blocking: the probe of the cached connection (lines
\* 84-93), the connection attempts (lines 95-114) and the return
GetDbConnectionBlocking ==
    LET is_alive == _conn # 0 /\ _conn \in alive
        connected == first_connecting(connect_formats, formats_ok)
    IN  IF is_alive
        THEN /\ conn_returned' = [raised |-> "None", connection |-> _conn]
             /\ attempts' = 0
             /\ UNCHANGED <<_conn, alive, closed, formats_ok, opened>>
        ELSE /\ opened < MaxOpened
             /\ closed' = IF _conn # 0 THEN closed \cup {_conn} ELSE closed
             /\ IF connected = 0
                THEN /\ _conn' = 0
                     /\ attempts' = Len(connect_formats)
                     /\ conn_returned' = [raised |-> "ConnectionError", connection |-> 0]
                     /\ UNCHANGED <<alive, opened>>
                ELSE /\ _conn' = opened + 1
                     /\ opened' = opened + 1
                     /\ alive' = alive \cup {opened + 1}
                     /\ attempts' = connected
                     /\ conn_returned' = [raised |-> "None", connection |-> opened + 1]
             /\ UNCHANGED formats_ok

\* one call of _get_db_connection_blocking
GetConnectionCall ==
    /\ GetDbConnectionBlocking
    /\ UNCHANGED <<query_vars, digest_vars, loader_vars, pool_vars>>

\* the server drops a connection
ConnectionDies ==
    /\ \E c \in alive : alive' = alive \ {c}
    /\ UNCHANGED <<_conn, closed, formats_ok, attempts, conn_returned, opened>>
    /\ UNCHANGED <<query_vars, digest_vars, loader_vars, pool_vars>>

\* the server comes to accept other connection strings, or none
FormatsChange ==
    /\ \E accepted \in SUBSET {"standard", "alternative"} :
          /\ accepted # formats_ok
          /\ formats_ok' = accepted
    /\ UNCHANGED <<_conn, alive, closed, attempts, conn_returned, opened>>
    /\ UNCHANGED <<query_vars, digest_vars, loader_vars, pool_vars>>

InitConnection == NoTool /\ NoServer

NextConnection ==
    \/ GetConnectionCall
    \/ ConnectionDies
    \/ FormatsChange

SpecConnection == InitConnection /\ [][NextConnection]_vars
(***************************************************************************)
(* src/sqlmcp/db/connection.py : DBConnectionPool, used by coroutines of   *)
(* one event loop.  A connection is the number of the _create_connection   *)
(* call that made it.  A call first waits for self.lock (coro[p] names the *)
(* method); the body of a method runs under the lock in one step, since    *)
(* nothing else changes the pool while the lock is held.  asyncio.Lock is  *)
(* not reentrant: a coroutine that awaits the lock it holds waits forever. *)
(***************************************************************************)
\* three connections in use for each one of pool_size
creation_limit_three(pool_size) == pool_size * 3

\* line 94: the number of connections in use below which one more is made
creation_limit(pool_size) == pool_size * 2

\* the connections that pool_size calls of _create_connection make
created(pool_size) ==
    [i \in 1..pool_size |-> connection_attempts + i]

\* a coroutine calls a method of the pool and comes to wait for the lock
Call(p, method) ==
    /\ coro[p] = "idle"
    /\ pool_calls < MaxPoolCalls
    /\ method = "release_connection" => conn[p] # 0
    /\ coro' = [coro EXCEPT ![p] = method]
    /\ error' = [error EXCEPT ![p] = "None"]
    /\ pool_calls' = pool_calls + 1
    /\ UNCHANGED <<pool, in_use, initialized, lock, connection_attempts, conn>>
    /\ UNCHANGED <<query_vars, digest_vars, loader_vars, conn_vars>>

\* initialize, called on its own
Initialize(p) ==
    /\ coro[p] = "initialize"
    /\ lock = 0
    /\ IF initialized
       THEN UNCHANGED <<pool, connection_attempts, initialized>>
       ELSE /\ pool' = pool \o created(MaxPoolSize)
            /\ connection_attempts' = connection_attempts + MaxPoolSize
            /\ initialized' = TRUE
    /\ coro' = [coro EXCEPT ![p] = "idle"]
    /\ UNCHANGED <<in_use, lock, conn, error, pool_calls>>
    /\ UNCHANGED <<query_vars, digest_vars, loader_vars, conn_vars>>

\* get_connection, called on its own or at line 134 of execute_query.  On
\* a pool that is not initialised the coroutine, holding the lock, awaits
\* initialize, which awaits the lock.
GetConnection(p) ==
    /\ coro[p] \in {"get_connection", "execute_query"}
    /\ lock = 0
    /\ IF ~initialized
       THEN /\ lock' = p
            /\ coro' = [coro EXCEPT ![p] = "initialize in " \o coro[p]]
            /\ UNCHANGED <<pool, in_use, connection_attempts, conn, error>>
       ELSE IF pool = <<>>
       THEN IF Cardinality(in_use) < creation_limit(MaxPoolSize)
            THEN /\ connection_attempts' = connection_attempts + 1
                 /\ in_use' = in_use \cup {connection_attempts + 1}
                 /\ conn' = [conn EXCEPT ![p] = connection_attempts + 1]
                 /\ coro' = [coro EXCEPT ![p] =
                                IF coro[p] = "execute_query" THEN "sleep" ELSE "idle"]
                 /\ UNCHANGED <<pool, lock, error>>
            ELSE /\ error' = [error EXCEPT ![p] = "TimeoutError"]
                 /\ coro' = [coro EXCEPT ![p] = "idle"]
                 /\ UNCHANGED <<pool, in_use, connection_attempts, lock, conn>>
       ELSE /\ pool' = Tail(pool)
            /\ in_use' = in_use \cup {Head(pool)}
            /\ conn' = [conn EXCEPT ![p] = Head(pool)]
            /\ coro' = [coro EXCEPT ![p] =
                           IF coro[p] = "execute_query" THEN "sleep" ELSE "idle"]
            /\ UNCHANGED <<connection_attempts, lock, error>>
    /\ UNCHANGED <<initialized, pool_calls>>
    /\ UNCHANGED <<query_vars, digest_vars, loader_vars, conn_vars>>

\* release_connection(conn), called on its own or in the finally clause of
\* execute_query once the sleep is over
ReleaseConnection(p) ==
    /\ coro[p] \in {"release_connection", "sleep"}
    /\ lock = 0
    /\ IF conn[p] \in in_use
       THEN /\ in_use' = in_use \ {conn[p]}
            /\ pool' = Append(pool, conn[p])
       ELSE UNCHANGED <<pool, in_use>>
    /\ coro' = [coro EXCEPT ![p] = "idle"]
    /\ UNCHANGED <<initialized, lock, connection_attempts, conn, error, pool_calls>>
    /\ UNCHANGED <<query_vars, digest_vars, loader_vars, conn_vars>>

\* close
Close(p) ==
    /\ coro[p] = "close"
    /\ lock = 0
    /\ pool' = <<>>
    /\ in_use' = {}
    /\ initialized' = FALSE
    /\ coro' = [coro EXCEPT ![p] = "idle"]
    /\ UNCHANGED <<lock, connection_attempts, conn, error, pool_calls>>
    /\ UNCHANGED <<query_vars, digest_vars, loader_vars, conn_vars>>

PoolMethods ==
    {"initialize", "get_connection", "release_connection", "execute_query", "close"}

InitPool == NoTool /\ NoServer

NextPool ==
    \/ \E p \in Coroutines, method \in PoolMethods : Call(p, method)
    \/ \E p \in Coroutines : Initialize(p)
    \/ \E p \in Coroutines : GetConnection(p)
    \/ \E p \in Coroutines : ReleaseConnection(p)
    \/ \E p \in Coroutines : Close(p)

SpecPool == InitPool /\ [][NextPool]_vars

\* the event loop resumes every coroutine that can go on
SpecPoolFair ==
    /\ SpecPool
    /\ \A p \in Coroutines :
          /\ WF_vars(Initialize(p))
          /\ WF_vars(GetConnection(p))
          /\ WF_vars(ReleaseConnection(p))
          /\ WF_vars(Close(p))
(***************************************************************************)
(* Properties of the persisted digest and of the tools that use it.        *)
(***************************************************************************)
\* the three maps of a digest document that hold records with a query_count
DigestParts == {"tables", "fields", "joins"}

\* every query_count of the digest before is still there and no lower after
counts_kept(before, after) ==
    \A part \in DigestParts :
        \A key \in DOMAIN before[part] :
            /\ key \in DOMAIN after[part]
            /\ after[part][key].query_count >= before[part][key].query_count

\* a step in which a refresh merged and saved
MergedAndSaved == Len(runs') = Len(runs) + 1

\* C11: across any sequence of refreshes the query_count that the persisted
\* digest holds for a table, field or join key is never lower after a merge
\* than it was before it.
C11_CountsMonotonic ==
    [][(MergedAndSaved /\ digest_file.kind = "digest" /\ digest_file'.kind = "digest")
          => counts_kept(digest_file.doc, digest_file'.doc)]_vars

\* the tables, fields, joins and usage_count that the digest path holds; a
\* path with no file holds none, and a file that is not a digest document
\* holds no digest
persisted(file) ==
    IF file.kind \in {"digest", "absent"}
    THEN [is_digest |-> TRUE, tables |-> file.doc.tables, fields |-> file.doc.fields,
          joins |-> file.doc.joins, usage_count |-> file.doc.usage_count]
    ELSE [is_digest |-> FALSE, tables |-> <<>>, fields |-> <<>>, joins |-> <<>>,
          usage_count |-> 0]

\* C12: the tables, fields, joins and usage_count of the persisted digest
\* change only in a step of a refresh that merges: get_usage_digest,
\* get_table_importance, suggest_important_joins, export_usage_report, a
\* skipped refresh and a refresh without query statistics leave them as
\* they are.
C12_OnlyMergeChangesDigest ==
    [][persisted(digest_file') # persisted(digest_file) => MergedAndSaved]_vars

\* a step in which handler h called update_usage_digest and the call reached
\* the test of line 206 with a digest loaded
Called(h) ==
    /\ calls' = calls + 1
    /\ step'[1] \in {"skipped", "begun"}
    /\ step'[2] = h

\* the last_updated of the digest that a call made now loads: the one of the
\* document, or the present time when the document is created or cannot be
\* read
last_updated_loaded ==
    IF digest_file.kind = "digest" /\ disk_ok THEN digest_file.doc.last_updated ELSE clock

\* the call of handler h returned "skipped" with that last_updated and went
\* no further
Skipped(h) ==
    /\ result'[h] = [status |-> "skipped", last_updated |-> last_updated_loaded]
    /\ task'[h] = "idle"
    /\ runs' = runs

\* the call of handler h went on to query the statistics
Runs(h) == task'[h] = "query_stats"

\* C13 as stated: the call is skipped unless strictly more than 24 hours have
\* elapsed since last_updated or the flag is set.
C13_SkipPolicyAsStated ==
    [][\A h \in Handlers : Called(h) =>
          IF local'[h].force_refresh \/ clock - last_updated_loaded > FRESHNESS_SECONDS
          THEN Runs(h) ELSE Skipped(h)]_vars

\* C13: update_usage_digest is skipped, returning "skipped" with the
\* last_updated of the digest it loaded and analysing no query, exactly when
\* the forced-refresh flag is not set and fewer than 86400 seconds have
\* elapsed since that last_updated; with the flag set, or 24 hours or more
\* after last_updated, it goes on to query the statistics.
C13_SkipPolicy ==
    [][\A h \in Handlers : Called(h) =>
          IF local'[h].force_refresh \/ clock - last_updated_loaded >= FRESHNESS_SECONDS
          THEN Runs(h) ELSE Skipped(h)]_vars

\* a call without the flag was skipped one second short of 24 hours
C13_Witness ==
    /\ step = <<"skipped", 1>>
    /\ ~local[1].force_refresh
    /\ result[1].status = "skipped"
    /\ clock - result[1].last_updated = FRESHNESS_SECONDS - 1

\* the refreshes that merged so far are exactly two, one after the other,
\* the first of a batch with the query "SELECT * FROM dbo.T1" executed 3
\* times and the second of a batch with the same query executed 2 times
TwoSequentialRefreshes ==
    /\ runs = <<[handler |-> 1, query_stats |-> Observed(T1Query, 3), saved |-> TRUE],
                [handler |-> 1, query_stats |-> Observed(T1Query, 2), saved |-> TRUE]>>
    /\ task[1] = "idle"

\* C14: after two sequential refreshes that both run, the first observing
\* "SELECT * FROM dbo.T1" with execution count 3 and the second the same query
\* with execution count 2, the persisted digest has tables["dbo.T1"] with
\* query_count 5 and a usage_count that is the sum of the two batch sizes.
C14_TwoRefreshesAdd ==
    TwoSequentialRefreshes =>
        /\ digest_file.kind = "digest"
        /\ <<"d", "b", "o", ".", "T", "1">> \in DOMAIN digest_file.doc.tables
        /\ digest_file.doc.tables[<<"d", "b", "o", ".", "T", "1">>].query_count = 5
        /\ digest_file.doc.usage_count =
               Len(Observed(T1Query, 3)) + Len(Observed(T1Query, 2))

\* the number of queries in the batches of the refreshes rs
RECURSIVE batch_sizes(_)
batch_sizes(rs) ==
    IF rs = <<>> THEN 0 ELSE Len(Head(rs).query_stats) + batch_sizes(Tail(rs))

\* the usage_count of the digest that the concurrent refreshes start from
InitialUsageCount == DigestOf(Observed(T1Query, 3)).usage_count

\* C15: when refreshes run concurrently no update is lost: once they have all
\* returned, the persisted digest counts the batch of every refresh that
\* merged (usage_count = initial + batch1 + batch2).
C15_NoLostUpdate ==
    (\A h \in Handlers : task[h] = "idle")
        => /\ digest_file.kind = "digest"
           /\ digest_file.doc.usage_count = InitialUsageCount + batch_sizes(runs)

\* the result of a tool reports an error
is_error_result(r) ==
    \/ "error" \in DOMAIN r
    \/ "status" \in DOMAIN r /\ r.status = "error"

\* the step just taken ended a refresh of handler h whose write of the
\* digest document failed
WriteFailed(h) ==
    /\ step = <<"merged", h>>
    /\ ~runs[Len(runs)].saved

\* C16: when the write of the digest document fails during a refresh,
\* update_usage_digest returns an error result, not a success status.
C16_WriteFailureReported ==
    \A h \in Handlers : WriteFailed(h) => is_error_result(result[h])

\* C18: no tool that takes a schema or a table name (list_tables,
\* get_table_schema, find_foreign_keys, get_table_importance,
\* suggest_important_joins) queries the database for a schema that is not in
\* the configured allow-list.
C18_OnlyAllowedSchemasQueried ==
    \A schema \in db_schemas : schema \in ALLOWED_SCHEMAS

\* the digest that a tool called now loads from a readable digest path
digest_at_hand ==
    IF digest_file.kind = "digest" THEN digest_file.doc ELSE EmptyDigest

\* the table is in the database and not in the digest at hand, and both the
\* digest path and the database can be read
InDatabaseOnly(table_name) ==
    /\ disk_ok
    /\ database.up
    /\ digest_file.kind \in {"digest", "absent"}
    /\ variant_in_digest(digest_at_hand, table_name) = 0
    /\ table_info_result(database.tables, schema_name_of(table_name),
                         table_name_only_of(table_name)) # {}

\* C19: get_table_importance for a table that is in the database and not in
\* the digest returns, for every digest and the empty one with usage_count 0
\* too, a normal result with query_count 0, not an error result.
C19_AbsentTableHasZeroCount ==
    [][\A table_name \in TableNames :
          (GetTableImportance(table_name) /\ InDatabaseOnly(table_name))
              => /\ "importance_metrics" \in DOMAIN reply'
                 /\ reply'.importance_metrics.query_count = 0]_vars

\* the suggestions that suggest_important_joins has just returned
Suggested ==
    /\ step[1] = "suggest_important_joins"
    /\ "join_suggestions" \in DOMAIN reply

\* C20: the list that suggest_important_joins returns holds a (primary table,
\* secondary table) pair at most once, also when the pair is found both in
\* the digest and in the foreign keys, has at most max_suggestions entries,
\* and is in descending order of query_count.
C20_SuggestionsDistinctAndSorted ==
    Suggested =>
        LET suggestions == reply.join_suggestions
        IN  /\ \A i, j \in 1..Len(suggestions) :
                   same_pair(suggestions[i], suggestions[j]) => i = j
            /\ Len(suggestions) <= reply.metadata.max_suggestions
            /\ \A i, j \in 1..Len(suggestions) :
                   i < j => suggestions[i].query_count >= suggestions[j].query_count
(***************************************************************************)
(* Properties of get_usage_digest, of the extraction functions and of the  *)
(* export.                                                                 *)
(***************************************************************************)
\* the digest that a tool called now gets from _load_usage_digest
digest_loaded == _load_usage_digest(digest_file, disk_ok, clock).digest

\* items is the list of the entries of map with at least min_query_count
\* queries, highest count first, cut to its first max_results
is_top_listing(items, map, min_query_count, max_results) ==
    LET listed == {items[i].key : i \in DOMAIN items}
        qualifying == {k \in DOMAIN map : map[k].query_count >= min_query_count}
    IN  /\ listed \subseteq qualifying
        /\ \A i \in DOMAIN items : items[i].info = map[items[i].key]
        /\ \A i, j \in DOMAIN items :
              /\ i # j => items[i].key # items[j].key
              /\ i < j => items[i].info.query_count >= items[j].info.query_count
        /\ Len(items) = IF Cardinality(qualifying) < max_results
                        THEN Cardinality(qualifying) ELSE max_results
        /\ \A k \in qualifying \ listed : \A i \in DOMAIN items :
              items[i].info.query_count >= map[k].query_count

\* C21: get_usage_digest returns, for each of tables, fields and joins,
\* exactly the entries of the digest with query_count >= min_query_count,
\* sorted by descending query_count and cut to the max_results entries of
\* highest count.
C21_FilteredSortedTruncated ==
    [][\A min_query_count \in {1, 2, 4, 5}, max_results \in {0, 1, 2, 50} :
          (GetUsageDigest(min_query_count, max_results) /\ "error" \notin DOMAIN reply')
          => /\ is_top_listing(reply'.most_used_tables, digest_loaded.tables,
                               min_query_count, max_results)
             /\ is_top_listing(reply'.most_used_fields, digest_loaded.fields,
                               min_query_count, max_results)
             /\ is_top_listing(reply'.most_used_joins, digest_loaded.joins,
                               min_query_count, max_results)]_vars

\* a call that filtered out an entry, cut the list and kept entries in order
C21_Witness ==
    /\ step = <<"get_usage_digest", 0>>
    /\ "error" \notin DOMAIN reply
    /\ digest_file = DigestFile(DigestOf(MixedCounts))
    /\ reply.metadata = [min_query_count |-> 1, max_results |-> 2]
    /\ Len(reply.most_used_fields) = 2
    /\ reply.most_used_fields[1].info.query_count = 3
    /\ reply.most_used_fields[2].info.query_count = 1
    /\ Len(reply.most_used_tables) = 2

\* C22: extraction on "SELECT a FROM dbo.Customers c JOIN dbo.Orders o ON
\* c.id = o.cust_id" yields the tables {"dbo.Customers", "dbo.Orders"} and a
\* join tuple whose two endpoints are those two table references, with a
\* condition text that contains "c.id = o.cust_id".
C22_CustomersOrdersLinked ==
    (query = CustomersOrders /\ pc = "joins")
    => /\ reply.tables = {<<"d", "b", "o", ".", "C", "u", "s", "t", "o", "m", "e", "r", "s">>, <<"d", "b", "o", ".", "O", "r", "d", "e", "r", "s">>}
       /\ \E i \in DOMAIN reply.joins :
             /\ {reply.joins[i][1], reply.joins[i][2]} = reply.tables
             /\ reply.joins[i][3] # None
             /\ str_contains(reply.joins[i][3], <<"c", ".", "i", "d", " ", "=", " ", "o", ".", "c", "u", "s", "t", "_", "i", "d">>)

\* C23: field extraction on the single-line query "SELECT a, b AS bb,
\* COUNT(*) FROM t WHERE x.y = 5" yields a set that contains a and b, holds
\* nothing of the COUNT(*) aggregate, and contains x.y or y.
C23_FieldsOfSelectAndWhere ==
    (query = AliasAggregateWhere /\ pc \in {"fields", "joins"})
    => /\ <<"a">> \in reply.fields
       /\ <<"b">> \in reply.fields
       /\ \A f \in reply.fields : ~str_contains(f, <<"C", "O", "U", "N", "T">>)
       /\ (<<"x", ".", "y">> \in reply.fields \/ <<"y">> \in reply.fields)

\* the pairs (table, joined table) of a list of join tuples
endpoints(joins) == {<<joins[i][1], joins[i][2]>> : i \in DOMAIN joins}

\* C24: for a query of one FROM table followed by JOIN clauses of any of
\* the six variants, each JOIN clause gives exactly one tuple per table seen
\* before it: "FROM A <variant> B" gives exactly the one tuple (A, B), and
\* with a following "JOIN C" exactly (A, B), (A, C), (B, C).
C24_OneTuplePerSeenTable ==
    \A t \in DOMAIN join_types, sep \in {<<" ">>, <<"\n">>} :
        /\ (/\ pc = "joins"
            /\ query = join_query(<<"S", "E", "L", "E", "C", "T", " ", "a">>, <<"F", "R", "O", "M", " ", "A">>, join_types[t], <<"B">>,
                                  <<>>, <<>>, sep))
           => /\ Len(reply.joins) = 1
              /\ endpoints(reply.joins) = {<<<<"A">>, <<"B">>>>}
        /\ (/\ pc = "joins"
            /\ query = join_query(<<"S", "E", "L", "E", "C", "T", " ", "a">>, <<"F", "R", "O", "M", " ", "A">>, join_types[t], <<"B">>,
                                  <<"J", "O", "I", "N", " ", "C">>, <<>>, sep))
           => /\ Len(reply.joins) = 3
              /\ endpoints(reply.joins) =
                    {<<<<"A">>, <<"B">>>>, <<<<"A">>, <<"C">>>>, <<<<"B">>, <<"C">>>>}

\* the map that a list of exported rows stands for: each row under its key,
\* without the key
keyed_by(rows, key_name) ==
    [k \in {rows[i][key_name] : i \in DOMAIN rows} |->
        LET row == rows[CHOOSE i \in DOMAIN rows : rows[i][key_name] = k]
        IN  [f \in DOMAIN row \ {key_name} |-> row[f]]]

\* C25: the JSON that export_usage_report writes for a digest, loaded
\* again, gives the tables, fields and joins maps of the digest: the same
\* keys with the same records (the rows of each list taken by their key).
C25_ExportRoundTrip ==
    [][(/\ ExportUsageReport(<<"j", "s", "o", "n">>, DigestPath)
        /\ "error" \notin DOMAIN reply')
       => /\ digest_file'.kind = "report"
          /\ keyed_by(digest_file'.doc.tables, "table_name") = digest_loaded.tables
          /\ keyed_by(digest_file'.doc.fields, "field_name") = digest_loaded.fields
          /\ keyed_by(digest_file'.doc.joins, "join_key") = digest_loaded.joins]_vars

(***************************************************************************)
(* Properties of the start of the server and of its connections.           *)
(***************************************************************************)
\* C26: register_all_tools returns True only if every tool group was
\* imported and registered, and False if any one group failed; a failure of
\* one group does not keep the later groups from being tried.
C26_TrueIffAllRegistered ==
    returned # "None"
    => /\ (returned = "True") <=> (failed = {})
       /\ \A g \in DOMAIN tool_groups :
             tool_groups[g] \in registered \cup failed

\* C27: _get_db_connection_blocking returns the cached connection when its
\* probe succeeds; when the probe fails it closes and drops it, then makes
\* at most two connection attempts (standard format, then alternative),
\* returns the first connection that succeeds and raises ConnectionError
\* only when both fail; no dead connection stays cached.
C27_ReuseOrReconnect ==
    [][GetConnectionCall
       => LET probe_ok == _conn # 0 /\ _conn \in alive
              fresh == conn_returned'.connection
          IN  /\ probe_ok
                 => /\ conn_returned' = [raised |-> "None", connection |-> _conn]
                    /\ attempts' = 0
                    /\ _conn' = _conn /\ closed' = closed /\ opened' = opened
              /\ ~probe_ok
                 => /\ _conn # 0 => (_conn \in closed' /\ _conn' # _conn)
                    /\ attempts' \in {1, 2}
                    /\ "standard" \in formats_ok
                       => attempts' = 1 /\ conn_returned'.raised = "None"
                    /\ formats_ok = {"alternative"}
                       => attempts' = 2 /\ conn_returned'.raised = "None"
                    /\ conn_returned'.raised = "ConnectionError"
                       <=> formats_ok = {}
                    /\ conn_returned'.raised = "None"
                       => /\ fresh = _conn' /\ fresh \notin alive \cup closed
                          /\ opened' = opened + 1
                    /\ conn_returned'.raised = "ConnectionError"
                       => _conn' = 0 /\ attempts' = 2 /\ opened' = opened
              /\ _conn' # 0 => (_conn' \in alive' /\ _conn' \notin closed')]_vars

\* the cached connection had died: it was closed, the standard format
\* failed and the alternative one gave the connection that is now cached
C27_Witness ==
    /\ _conn = 2 /\ conn_returned = [raised |-> "None", connection |-> 2]
    /\ attempts = 2
    /\ closed = {1}
    /\ formats_ok = {"alternative"}
    /\ 2 \in alive

C29_UninitialisedPoolServes ==
    \A p \in Coroutines :
        (coro[p] \in {"get_connection", "execute_query"} /\ ~initialized /\ lock = 0)
        ~> (coro[p] \in {"idle", "sleep"})

\* the document holds a digest with no entry and no query counted, which
\* was stamped less than 24 hours ago
FreshlyCreated(file) ==
    /\ file.kind = "digest"
    /\ file.doc.usage_count = 0
    /\ \A part \in DigestParts : DOMAIN file.doc[part] = {}
    /\ clock - file.doc.last_updated < FRESHNESS_SECONDS

\* C30: when no digest is persisted, the first access creates and persists
\* an empty digest whose last_updated is the current time, so that an
\* update_usage_digest without the flag, made within the following 24 hours,
\* returns "skipped" and analyses no query; in that window only a forced
\* refresh puts anything into the digest.
C30_FreshDigestSkipsUnforced ==
    [][\A h \in Handlers :
          /\ (Called(h) /\ digest_file.kind = "absent")
             => digest_file' =
                   [kind |-> "digest",
                    doc |-> [last_updated |-> clock, usage_count |-> 0,
                             tables |-> <<>>, fields |-> <<>>, joins |-> <<>>]]
          /\ (/\ Called(h)
              /\ ~local'[h].force_refresh
              /\ digest_file.kind = "absent" \/ FreshlyCreated(digest_file))
             => Skipped(h) /\ digest_file'.doc.usage_count = 0
          /\ (/\ FreshlyCreated(digest_file)
              /\ step'[2] = h
              /\ digest_file'.doc # digest_file.doc)
             => MergedAndSaved /\ local[h].force_refresh]_vars

\* the digest was created by the first call, and a call without the flag,
\* one second short of 24 hours later, was skipped and left it empty
C30_Witness ==
    /\ step = <<"skipped", 1>>
    /\ calls = 2
    /\ ~local[1].force_refresh
    /\ digest_file = DigestFile([EmptyDigest EXCEPT !.last_updated = 1])
    /\ clock = FRESHNESS_SECONDS
    /\ runs = <<>>
====
